---- MODULE Spec2Model ----
(***************************************************************************)
(* A model of the hybrid movie recommender of src/main.py: the rating      *)
(* merge (load_and_merge_ratings), the Thompson-Sampling bandit            *)
(* (ThompsonSamplingRecommender), the content neighbour lookup             *)
(* (recommend_similar_by_index), the by-user request                       *)
(* (recommend_personalization_logic), the score fusion                     *)
(* (ensemble_recommendations), the catalog build with its cache artifacts  *)
(* (build_model) and the external metadata lookups (fetch_tmdb_by_id,      *)
(* fetch_tmdb_by_search).                                                  *)
(*                                                                         *)
(* Conventions.  A Python None is the empty tuple and a present value x is *)
(* the one-element tuple <<x>>.  A pandas DataFrame is the sequence of its *)
(* rows.  Ratings are kept in half-star units (the rating 3.5 is 7), so    *)
(* that the comparisons of the code stay integer comparisons.  Row and     *)
(* list indices of the code are 0-based; a Python list l is the sequence   *)
(* whose element i+1 is l[i].                                              *)
(***************************************************************************)
EXTENDS Integers, Sequences, FiniteSets, Bags, TLC

VARIABLES
    FIREBASE_ENABLED,     \* main.py:37-46, set once at import
    csv_ratings,          \* the rows of RATINGS_CSV (the batch dataset)
    firebase_collections, \* the rows load_firebase_ratings reads from the live store
    merged_cache,         \* the blob at MERGED_RATINGS_CACHE: None or a table
    user_movie_ratings,   \* main.py:86, the merged table: None or a table
    merge_calls,          \* number of load_and_merge_ratings calls made so far
    bandit,               \* one ThompsonSamplingRecommender: [alpha, beta_param]
    bandit_call,          \* the last call made on bandit, with what it computed
    _df,                  \* main.py:75, the catalog: its number of rows
    _sentence_model,      \* main.py:80: None or the recommender with its FAISS index
    _knn,                 \* main.py:79: None or the fitted NearestNeighbors
    similar_call,         \* the last recommend_similar_by_index call and its result
    _title_index,         \* main.py:78, normalized title -> row, in insertion order
    lookup_call,          \* the last find_movie_index_by_name call and its result
    firestore_ratings,    \* the live store's users/<user>/ratings documents, per user
    df_has_vote_count,    \* whether the catalog _df has a vote_count column
    ensemble_cache,       \* the blob models/ensemble_models.joblib: None or the models
    ensemble_models,      \* main.py:88, name -> trained model
    thompson_bandits,     \* main.py:89, user_id -> ThompsonSamplingRecommender
    requests,             \* number of by-user requests served so far
    request,              \* the last by-user request: what it computed and returned
    threads,              \* the by-user requests running at once: locals and position
    movies_csv,           \* the rows of MOVIES_CSV (the catalog file), cleaned
    model_cache,          \* the blob at MODEL_CACHE: None or the saved catalog
    embeddings_cache,     \* the blob models/sentence_embeddings.joblib: None or its dict
    build_call,           \* the last build_model call and the globals it left
    fusion_call,          \* the last ensemble_recommendations call and its result
    TMDB_API_KEY,         \* main.py:58: whether the key is set
    _TMDB_CACHE,          \* main.py:83, lookup key -> data
    tmdb_call             \* the last result entry built with its metadata lookups

mergeVars == <<FIREBASE_ENABLED, csv_ratings, firebase_collections, merged_cache,
               user_movie_ratings, merge_calls>>

banditVars == <<bandit, bandit_call>>

similarVars == <<_df, _sentence_model, _knn, similar_call, _title_index, lookup_call>>

requestVars == <<firestore_ratings, df_has_vote_count, ensemble_cache, ensemble_models,
                 thompson_bandits, requests, request, threads>>

buildVars == <<movies_csv, model_cache, embeddings_cache, build_call>>

fusionVars == <<fusion_call>>

tmdbVars == <<TMDB_API_KEY, _TMDB_CACHE, tmdb_call>>

vars == <<mergeVars, banditVars, similarVars, requestVars, buildVars, fusionVars, tmdbVars>>

None == <<>>
Some(x) == <<x>>
Get(o) == o[1]

\* ------------------------------------------------------------------------
\* Bounds of the model
\* ------------------------------------------------------------------------
MaxCsvRows == 2
MaxLiveRows == 2
MaxMergeCalls == 2

Users == {"u1", "u2"}
Movies == {1, 2}
\* ratings in half-star units: 4.0 and 2.0
Ratings == {8, 4}

\* ------------------------------------------------------------------------
\* Sequence helpers
\* ------------------------------------------------------------------------
Range(s) == {s[i] : i \in 1..Len(s)}

SeqsUpTo(S, n) == UNION {[1..k -> S] : k \in 0..n}

\* the subsequence of s at the positions in idx, in order
RECURSIVE Pick(_, _, _)
Pick(s, idx, i) ==
    IF i > Len(s) THEN <<>>
    ELSE IF i \in idx THEN <<s[i]>> \o Pick(s, idx, i + 1)
    ELSE Pick(s, idx, i + 1)

\* ------------------------------------------------------------------------
\* The parts of the program a specification leaves untouched
\* ------------------------------------------------------------------------
MergeIdle ==
    /\ FIREBASE_ENABLED = FALSE
    /\ csv_ratings = <<>>
    /\ firebase_collections = <<>>
    /\ merged_cache = None
    /\ user_movie_ratings = None
    /\ merge_calls = 0

LookupIdle ==
    /\ _title_index = <<>>
    /\ lookup_call = None

SimilarIdle ==
    /\ _df = 0
    /\ _sentence_model = None
    /\ _knn = None
    /\ similar_call = None
    /\ LookupIdle

BuildIdle ==
    /\ movies_csv = <<>>
    /\ model_cache = None
    /\ embeddings_cache = None
    /\ build_call = None

FusionIdle == fusion_call = None

TmdbIdle ==
    /\ TMDB_API_KEY = FALSE
    /\ _TMDB_CACHE = <<>>
    /\ tmdb_call = None

RequestIdle ==
    /\ firestore_ratings = <<>>
    /\ df_has_vote_count = FALSE
    /\ ensemble_cache = None
    /\ ensemble_models = <<>>
    /\ thompson_bandits = <<>>
    /\ requests = 0
    /\ request = None
    /\ threads = <<>>

\* ------------------------------------------------------------------------
\* Exploration bandit (ThompsonSamplingRecommender)
\* ------------------------------------------------------------------------
\* a Python dict is a function on its key set; d[k] = v on it:
Put(d, k, v) == [x \in DOMAIN d \cup {k} |-> IF x = k THEN v ELSE d[x]]

\* dict.get(k, default)
DictGet(d, k, default) == IF k \in DOMAIN d THEN d[k] ELSE default

\* ThompsonSamplingRecommender.__init__
NewBandit == [alpha |-> <<>>, beta_param |-> <<>>]

\* the uniform prior Beta(1, 1) given to a movie on its first reference
Prior == 1

\* 3.5 stars in half-star units: reward = 1 if rating >= 3.5 else 0
LikedRating == 7

RewardOf(rating) == IF rating >= LikedRating THEN 1 ELSE 0

\* the movie's counters are created when it is not in alpha
WithPrior(b, movie_id) ==
    IF movie_id \notin DOMAIN b.alpha
    THEN [alpha |-> Put(b.alpha, movie_id, Prior),
          beta_param |-> Put(b.beta_param, movie_id, Prior)]
    ELSE b

update_AlwaysSuccess(b, movie_id, reward) ==
    LET b1 == WithPrior(b, movie_id)
    IN  [b1 EXCEPT !.alpha[movie_id] = @ + 1]

\* ThompsonSamplingRecommender.update: `reward > 0.5` is `2 * reward > 1`
update(b, movie_id, reward) ==
    LET b1 == WithPrior(b, movie_id)
    IN  IF 2 * reward > 1
        THEN [b1 EXCEPT !.alpha[movie_id] = @ + 1]
        ELSE [b1 EXCEPT !.beta_param[movie_id] = @ + 1]

BanditIdle ==
    /\ bandit = NewBandit
    /\ bandit_call = None

\* --- the update contract on one recommender -----------------------------
MaxCount == 3

\* 3.0, 3.5 and 4.0 stars
FeedbackRatings == {6, 7, 8}

\* one observed rating fed to the bandit as the request does (main.py:933-936)
Update(movie_id, rating) ==
    /\ DictGet(bandit.alpha, movie_id, Prior) < MaxCount
    /\ DictGet(bandit.beta_param, movie_id, Prior) < MaxCount
    /\ bandit' = update(bandit, movie_id, RewardOf(rating))
    /\ bandit_call' = Some([op |-> "update", movie_id |-> movie_id, rating |-> rating])
    /\ UNCHANGED <<mergeVars, similarVars, requestVars>>
    /\ UNCHANGED <<buildVars, fusionVars, tmdbVars>>

InitUpdate ==
    /\ BanditIdle
    /\ MergeIdle
    /\ SimilarIdle
    /\ RequestIdle
    /\ BuildIdle
    /\ FusionIdle
    /\ TmdbIdle

NextUpdate == \E movie_id \in Movies, rating \in FeedbackRatings : Update(movie_id, rating)

SpecUpdate == InitUpdate /\ [][NextUpdate]_vars

\* --- sample_movies on one recommender -----------------------------------
\* The order of the returned list is left uniformly random by random.shuffle, and
\* the order of exploit_recs and of explore_sample is lost in it: the three are kept
\* as the bags (sets) of their entries.
Min(a, b) == IF a < b THEN a ELSE b

\* the k-element subsets of S
Subsets(S, k) == {T \in SUBSET S : Cardinality(T) = k}

\* a movie with alpha + beta_param below this has little feedback (main.py:759)
LowConfidenceLimit == 10

n_explore_of_RoundUp(n_samples, explore_rate) == (n_samples * explore_rate + 99) \div 100

\* explore_rate is kept in percent: int(n_samples * explore_rate)
n_explore_of(n_samples, explore_rate) == (n_samples * explore_rate) \div 100

n_exploit_of(n_samples, explore_rate) == n_samples - n_explore_of(n_samples, explore_rate)

\* the bandit after the scoring loop: every candidate has counters
RECURSIVE Referenced(_, _)
Referenced(b, candidate_movies) ==
    IF candidate_movies = <<>> THEN b
    ELSE Referenced(WithPrior(b, candidate_movies[1]), Tail(candidate_movies))

\* sorted(exploit_scores.items(), key=-score)[:n_exploit]: one fresh Beta draw for
\* each key of exploit_scores, every order of the keys has positive probability, so
\* the top n_exploit keys are any n_exploit of them (all of them when there are fewer)
ExploitRecs(candidate_movies, n_exploit) ==
    Subsets(Range(candidate_movies), Min(n_exploit, Cardinality(Range(candidate_movies))))

Evidence(b, m) == DictGet(b.alpha, m, 1) + DictGet(b.beta_param, m, 1)

low_confidence_movies_AtMost(b, candidate_movies) ==
    SelectSeq(candidate_movies, LAMBDA m : Evidence(b, m) <= LowConfidenceLimit)

low_confidence_movies(b, candidate_movies) ==
    SelectSeq(candidate_movies, LAMBDA m : Evidence(b, m) < LowConfidenceLimit)

ExploreSize_NoMin(n_explore, n_low) == n_explore

\* min(n_explore, len(low_confidence_movies))
ExploreSize(n_explore, n_low) == Min(n_explore, n_low)

\* np.random.choice(low, size, replace=False): raises ValueError when size exceeds
\* len(low); otherwise the entries at any `size` distinct positions of low
ChoiceRaises(low, size) == size > Len(low)

np_random_choice(low, size) ==
    {[m \in {low[i] : i \in pos} |-> Cardinality({i \in pos : low[i] = m})] :
         pos \in Subsets(1..Len(low), size)}

ExploreSkipped_Never(low, n_explore) == FALSE

\* the else branch of `if low_confidence_movies and n_explore > 0`
ExploreSkipped(low, n_explore) == ~(Len(low) > 0 /\ n_explore > 0)

\* the outcomes of sample_movies(candidate_movies, n_samples, explore_rate) on b
SampleOutcomes(b, candidate_movies, n_samples, explore_rate) ==
    LET n_explore == n_explore_of(n_samples, explore_rate)
        n_exploit == n_exploit_of(n_samples, explore_rate)
        b1 == Referenced(b, candidate_movies)
        low == low_confidence_movies(b1, candidate_movies)
        size == ExploreSize(n_explore, Len(low))
        call == [op |-> "sample", candidate_movies |-> candidate_movies,
                 n_samples |-> n_samples, explore_rate |-> explore_rate,
                 n_explore |-> n_explore, n_exploit |-> n_exploit]
        Rec(raised, exploit_recs, explore_sample) ==
            [call |-> call, raised |-> raised, exploit_recs |-> exploit_recs,
             explore_sample |-> explore_sample,
             result |-> SetToBag(exploit_recs) (+) explore_sample, bandit |-> b1]
    IN  IF ExploreSkipped(low, n_explore)
        THEN {Rec(FALSE, e, EmptyBag) : e \in ExploitRecs(candidate_movies, n_exploit)}
        ELSE IF ChoiceRaises(low, size)
        THEN {Rec(TRUE, {}, EmptyBag)}
        ELSE {Rec(FALSE, e, x) : e \in ExploitRecs(candidate_movies, n_exploit),
                                 x \in np_random_choice(low, size)}

\* ThompsonSamplingRecommender.sample_movies
SampleMovies(candidate_movies, n_samples, explore_rate) ==
    \E out \in SampleOutcomes(bandit, candidate_movies, n_samples, explore_rate) :
       /\ bandit' = out.bandit
       /\ bandit_call' = Some([op |-> "sample", call |-> out.call, raised |-> out.raised,
                               exploit_recs |-> out.exploit_recs,
                               explore_sample |-> out.explore_sample,
                               result |-> out.result])
       /\ UNCHANGED <<mergeVars, similarVars, requestVars>>
       /\ UNCHANGED <<buildVars, fusionVars, tmdbVars>>

MaxSamples == 10
MaxCandidates == 10
\* explore_rate 0, 0.2 (the rate the request passes) and 1.0, in percent
ExploreRates == {0, 20, 100}

\* The movies are interchangeable, so the states the bandit is called in are taken up
\* to renaming: movies 1..h have reached the limit through nine updates, and the
\* others are either unknown or one update short of the limit.
InitSample ==
    /\ \E h \in 0..MaxCandidates, known \in BOOLEAN :
          LET dom == IF known THEN 1..MaxCandidates ELSE 1..h
          IN  bandit = [alpha |-> [m \in dom |->
                                     IF m <= h THEN LowConfidenceLimit - 1
                                     ELSE LowConfidenceLimit - 2],
                        beta_param |-> [m \in dom |-> 1]]
    /\ bandit_call = None
    /\ MergeIdle
    /\ SimilarIdle
    /\ RequestIdle
    /\ BuildIdle
    /\ FusionIdle
    /\ TmdbIdle

NextSample ==
    /\ bandit_call = None
    /\ \E k \in 0..MaxCandidates, n_samples \in 0..MaxSamples, explore_rate \in ExploreRates :
          SampleMovies([i \in 1..k |-> i], n_samples, explore_rate)

SpecSample == InitSample /\ [][NextSample]_vars

\* ------------------------------------------------------------------------
\* Content similarity index and neighbour lookup
\* ------------------------------------------------------------------------
\* As for sample_movies, a list that the code shuffles before use is kept as the bag
\* of its entries.
MaxCatalog == 21
MaxTopN == 1

\* top_k of _sentence_model.find_similar(idx, top_k=20)
SemanticTopK == 20
\* NearestNeighbors(n_neighbors=11)
KnnNeighbors == 11
\* max_return = 21
KnnMaxReturn == 21
\* np.argsort(-cosine_similarities)[:20] and pairs[:20]
NeighborCut == 20

Abs(x) == IF x < 0 THEN 0 - x ELSE x

\* The similarity of documents i and j (inner product of the unit embeddings, cosine
\* of the TF-IDF rows) in the catalogs modelled: the closer two rows the more similar
\* their documents, a document most similar to itself, the rows at the same distance
\* on either side equally similar.
Sim(i, j) == MaxCatalog + 1 - Abs(i - j)

RECURSIVE KSubsets(_, _)
KSubsets(S, k) ==
    IF k = 0 THEN {{}}
    ELSE IF Cardinality(S) < k THEN {}
    ELSE LET x == CHOOSE y \in S : TRUE
         IN  {T \cup {x} : T \in KSubsets(S \ {x}, k - 1)} \cup KSubsets(S \ {x}, k)

\* what a nearest-neighbour search for the k most similar to query among pool may
\* return: min(k, |pool|) of them, none less similar than one left out (ties are
\* broken either way)
Nearest(query, pool, k) ==
    IF Cardinality(pool) <= k THEN {pool}
    ELSE LET t == CHOOSE v \in {Sim(query, j) : j \in pool} :
                     /\ Cardinality({j \in pool : Sim(query, j) >= v}) >= k
                     /\ Cardinality({j \in pool : Sim(query, j) > v}) < k
             above == {j \in pool : Sim(query, j) > t}
             ties == {j \in pool : Sim(query, j) = t}
         IN  {above \cup T : T \in KSubsets(ties, k - Cardinality(above))}

\* n copies of x
Copies(x, n) == IF n > 0 THEN [y \in {x} |-> n] ELSE EmptyBag

\* faiss IndexFlatIP.search(query, k): the k nearest of the ntotal vectors, and the
\* label -1 for each result that is missing when k > ntotal
faiss_search(query, ntotal, k) ==
    {SetToBag(T) (+) Copies(-1, k - Cardinality(T)) : T \in Nearest(query, 0..(ntotal - 1), k)}

\* SentenceTransformerRecommender.find_similar: drop movie_idx, keep the first top_k
find_similar(movie_idx, top_k) ==
    UNION {LET kept == BagToSet(found) \ {movie_idx, -1}
               pad == Copies(-1, CopiesIn(-1, found))
           IN  IF Cardinality(kept) > top_k
               THEN {SetToBag(T) : T \in Nearest(movie_idx, kept, top_k)}
               ELSE {SetToBag(kept) (+) pad}
           : found \in faiss_search(movie_idx, Get(_sentence_model).ntotal, top_k + 1)}

\* _knn.kneighbors(_tfidf[idx], n_neighbors=k) raises when k exceeds the fitted rows
KnnRaises(k) == k > Get(_knn).n_samples_fit

\* the pairs of the KNN stage: the k nearest without idx, the best NeighborCut of them
knn_pairs(idx, k) ==
    UNION {Nearest(idx, T \ {idx}, NeighborCut) : T \in Nearest(idx, 0..(_df - 1), k)}

\* cosine_similarities[idx] = -1; np.argsort(-cosine_similarities)[:20]: idx sorts
\* last, and is among the first 20 when the catalog has no more than 20 rows
cosine_top_idx(idx) ==
    IF _df <= NeighborCut THEN {0..(_df - 1)}
    ELSE Nearest(idx, (0..(_df - 1)) \ {idx}, NeighborCut)

\* find_similar raises ValueError when the FAISS index was never built
FindSimilarRaises == ~Get(_sentence_model).built

\* one stage of the lookup: what it was and how it ended
Tried(stage, outcome) == [stage |-> stage, outcome |-> outcome]

\* "found" or "empty"
OutcomeOf(b) == IF b = EmptyBag THEN "empty" ELSE "found"

NeedsLexical_ParameterOnly(use_semantic, raised, neighbor_indices) == ~use_semantic

\* `if not use_semantic or not neighbor_indices`, use_semantic having been set to
\* False by the except branch of the semantic stage
NeedsLexical(use_semantic, raised, neighbor_indices) ==
    \/ ~(use_semantic /\ ~raised)
    \/ neighbor_indices = EmptyBag

\* the neighbour lists recommend_similar_by_index can reach, each with the stage that
\* gave it and the stages tried before
Neighbors(idx, use_semantic) ==
    LET semantic == IF use_semantic /\ _sentence_model # None
                    THEN IF FindSimilarRaises
                         THEN {[raised |-> TRUE, neighbor_indices |-> EmptyBag,
                                trace |-> <<Tried("semantic", "raised")>>]}
                         ELSE {[raised |-> FALSE, neighbor_indices |-> b,
                                trace |-> <<Tried("semantic", OutcomeOf(b))>>] :
                                  b \in find_similar(idx, SemanticTopK)}
                    ELSE {[raised |-> FALSE, neighbor_indices |-> EmptyBag, trace |-> <<>>]}
        k == Min(KnnNeighbors, KnnMaxReturn)
        knn == IF _knn = None
               THEN {[neighbor_indices |-> EmptyBag, trace |-> <<>>]}
               ELSE IF KnnRaises(k)
               THEN {[neighbor_indices |-> EmptyBag, trace |-> <<Tried("knn", "raised")>>]}
               ELSE {[neighbor_indices |-> SetToBag(T),
                      trace |-> <<Tried("knn", OutcomeOf(SetToBag(T)))>>] :
                        T \in knn_pairs(idx, k)}
        cosine == {[neighbor_indices |-> SetToBag(T),
                    trace |-> <<Tried("cosine", OutcomeOf(SetToBag(T)))>>] :
                      T \in cosine_top_idx(idx)}
        lexical == UNION {IF r.neighbor_indices = EmptyBag
                          THEN {[neighbor_indices |-> c.neighbor_indices,
                                 trace |-> r.trace \o c.trace] : c \in cosine}
                          ELSE {r} : r \in knn}
    IN  UNION {IF NeedsLexical(use_semantic, r.raised, r.neighbor_indices)
               THEN {[stage |-> IF l.trace = <<>> THEN "none"
                                ELSE l.trace[Len(l.trace)].stage,
                      neighbor_indices |-> l.neighbor_indices,
                      trace |-> r.trace \o l.trace] : l \in lexical}
               ELSE {[stage |-> "semantic", neighbor_indices |-> r.neighbor_indices,
                      trace |-> r.trace]}
               : r \in semantic}

\* the bags of t entries of bag B
RECURSIVE SubBags(_, _)
SubBags(B, t) ==
    IF t = 0 THEN {EmptyBag}
    ELSE IF BagCardinality(B) < t THEN {}
    ELSE LET x == CHOOSE y \in BagToSet(B) : TRUE
             rest == [y \in BagToSet(B) \ {x} |-> B[y]]
         IN  UNION {{Copies(x, j) (+) r : r \in SubBags(rest, t - j)} : j \in 0..Min(B[x], t)}

\* _df.iloc[i]: a negative position counts from the end
Iloc(i) == IF i < 0 THEN _df + i ELSE i

\* whether the except branch of the semantic stage has run
SemanticRaised(trace) == \E i \in 1..Len(trace) : trace[i] = Tried("semantic", "raised")

method_ParameterOnly(use_semantic, trace) ==
    IF use_semantic /\ _sentence_model # None
    THEN "Semantic similarity" ELSE "Content similarity"

\* method = "Semantic similarity" if use_semantic and _sentence_model else "Content
\* similarity", use_semantic being False once the semantic stage has raised
method(use_semantic, trace) ==
    IF (use_semantic /\ ~SemanticRaised(trace)) /\ _sentence_model # None
    THEN "Semantic similarity" ELSE "Content similarity"

\* recommend_similar_by_index(idx, top_n, use_semantic)
RecommendSimilarByIndex(idx, top_n, use_semantic) ==
    /\ \E n \in Neighbors(idx, use_semantic) :
          \E selected \in SubBags(n.neighbor_indices,
                                  Min(top_n, BagCardinality(n.neighbor_indices))) :
             similar_call' = Some([idx |-> idx, top_n |-> top_n,
                                   use_semantic |-> use_semantic, stage |-> n.stage,
                                   trace |-> n.trace,
                                   neighbor_indices |-> n.neighbor_indices,
                                   selected |-> selected,
                                   results |-> {Iloc(i) : i \in BagToSet(selected)},
                                   method |-> method(use_semantic, n.trace)])
    /\ UNCHANGED <<_df, _sentence_model, _knn, _title_index, lookup_call>>
    /\ UNCHANGED <<mergeVars, banditVars, requestVars>>
    /\ UNCHANGED <<buildVars, fusionVars, tmdbVars>>

\* the state build_model leaves: the catalog with its TF-IDF rows, the KNN fitted on
\* them unless fitting failed, and the sentence model: absent when loading it failed,
\* without an index when build_index failed (build_model has then raised after
\* assigning the other globals, main.py:385-389)
InitSimilar ==
    /\ _df \in 1..MaxCatalog
    /\ _sentence_model \in {None, Some([built |-> FALSE, ntotal |-> 0]),
                           Some([built |-> TRUE, ntotal |-> _df])}
    /\ _knn \in {None, Some([n_neighbors |-> KnnNeighbors, n_samples_fit |-> _df])}
    /\ similar_call = None
    /\ LookupIdle
    /\ MergeIdle
    /\ BanditIdle
    /\ RequestIdle
    /\ BuildIdle
    /\ FusionIdle
    /\ TmdbIdle

NextSimilar ==
    /\ similar_call = None
    /\ \E idx \in 0..(_df - 1), top_n \in 0..MaxTopN, use_semantic \in BOOLEAN :
          RecommendSimilarByIndex(idx, top_n, use_semantic)

SpecSimilar == InitSimilar /\ [][NextSimilar]_vars

\* ------------------------------------------------------------------------
\* Title lookup (find_movie_index_by_name)
\* ------------------------------------------------------------------------
\* A string is the sequence of its characters.
MaxTitles == 2

\* the titles of the catalog and the names looked up: "abcd", "abc", "ab", "AB!",
\* "b  c", "abd", "d" and the empty string
RawTitles ==
    {<<"a", "b", "c", "d">>, <<"a", "b", "c">>, <<"a", "b">>, <<"A", "B", "!">>,
     <<"b", " ", " ", "c">>, <<"a", "b", "d">>, <<"d">>, <<>>}

\* the code points of the characters used
CharCode(c) ==
    CASE c = " " -> 32 [] c = "!" -> 33 [] c = "A" -> 65 [] c = "B" -> 66
      [] c = "a" -> 97 [] c = "b" -> 98 [] c = "c" -> 99 [] c = "d" -> 100

\* str.lower() on one character
Lower(c) == CASE c = "A" -> "a" [] c = "B" -> "b" [] OTHER -> c

\* str.strip()
RECURSIVE Strip(_)
Strip(t) ==
    IF t = <<>> THEN t
    ELSE IF t[1] = " " THEN Strip(Tail(t))
    ELSE IF t[Len(t)] = " " THEN Strip(SubSeq(t, 1, Len(t) - 1))
    ELSE t

\* [a-z0-9]: 0-9 and a-z by code point
IsAlnum(c) == (CharCode(c) >= 48 /\ CharCode(c) <= 57) \/ (CharCode(c) >= 97 /\ CharCode(c) <= 122)

\* re.sub(r"\s+", " ", t)
RECURSIVE CollapseSpaces(_)
CollapseSpaces(t) ==
    IF Len(t) < 2 THEN t
    ELSE IF t[1] = " " /\ t[2] = " " THEN CollapseSpaces(Tail(t))
    ELSE <<t[1]>> \o CollapseSpaces(Tail(t))

\* normalize_text: lower, strip, then every character outside [a-z0-9\s] becomes a
\* space, then runs of spaces become one space (no second strip)
normalize_text(t) ==
    IF t = None THEN <<>>
    ELSE LET stripped == Strip([i \in 1..Len(Get(t)) |-> Lower(Get(t)[i])])
         IN  CollapseSpaces([i \in 1..Len(stripped) |->
                               IF IsAlnum(stripped[i]) \/ stripped[i] = " "
                               THEN stripped[i] ELSE " "])

\* the blocks (i, j, k) with a[i..i+k-1] = b[j..j+k-1], k >= 1
CommonBlocks(a, b) ==
    {blk \in (1..Len(a)) \X (1..Len(b)) \X (1..Min(Len(a), Len(b))) :
        /\ blk[1] + blk[3] - 1 <= Len(a)
        /\ blk[2] + blk[3] - 1 <= Len(b)
        /\ SubSeq(a, blk[1], blk[1] + blk[3] - 1) = SubSeq(b, blk[2], blk[2] + blk[3] - 1)}

\* SequenceMatcher.find_longest_match: the longest block, the earliest in a of the
\* longest, the earliest in b of those
find_longest_match(a, b) ==
    CHOOSE blk \in CommonBlocks(a, b) :
        \A o \in CommonBlocks(a, b) :
            \/ blk[3] > o[3]
            \/ blk[3] = o[3] /\ blk[1] < o[1]
            \/ blk[3] = o[3] /\ blk[1] = o[1] /\ blk[2] <= o[2]

\* the number of matched characters of SequenceMatcher.get_matching_blocks: the
\* longest block, then the same to the left and to the right of it
RECURSIVE Matched(_, _)
Matched(a, b) ==
    IF CommonBlocks(a, b) = {} THEN 0
    ELSE LET blk == find_longest_match(a, b)
         IN  blk[3] + Matched(SubSeq(a, 1, blk[1] - 1), SubSeq(b, 1, blk[2] - 1))
                    + Matched(SubSeq(a, blk[1] + blk[3], Len(a)),
                              SubSeq(b, blk[2] + blk[3], Len(b)))

\* fuzzy_cutoff=0.7, in percent
FuzzyCutoff == 70

\* SequenceMatcher(a, b).ratio() >= cutoff, the ratio being 2.0 * matches / length,
\* and 1.0 for two empty strings
CloseEnough(a, b) ==
    IF Len(a) + Len(b) = 0 THEN TRUE
    ELSE 200 * Matched(a, b) >= FuzzyCutoff * (Len(a) + Len(b))

\* ratio(a1, w) < ratio(a2, w) as fractions
RatioLess(a1, a2, w) ==
    LET t1 == Len(a1) + Len(w)
        t2 == Len(a2) + Len(w)
    IN  IF t2 = 0 THEN FALSE
        ELSE IF t1 = 0 THEN FALSE
        ELSE Matched(a1, w) * t2 < Matched(a2, w) * t1

RatioEqual(a1, a2, w) == ~RatioLess(a1, a2, w) /\ ~RatioLess(a2, a1, w)

\* Python's str <
RECURSIVE StrLess(_, _)
StrLess(x, y) ==
    IF y = <<>> THEN FALSE
    ELSE IF x = <<>> THEN TRUE
    ELSE IF x[1] # y[1] THEN CharCode(x[1]) < CharCode(y[1])
    ELSE StrLess(Tail(x), Tail(y))

\* get_close_matches(word, possibilities, n=3, cutoff)[0] when there is one: the
\* greatest (ratio, string) of those that are close enough
get_close_matches(word, possibilities) ==
    LET close == {x \in Range(possibilities) : CloseEnough(x, word)}
    IN  IF close = {} THEN None
        ELSE Some(CHOOSE x \in close :
                     \A y \in close \ {x} :
                        \/ RatioLess(y, x, word)
                        \/ RatioEqual(y, x, word) /\ StrLess(y, x))

\* {t: idx for idx, t in enumerate(title_norm)}: a key keeps the place of its first
\* insertion and the value of its last
RECURSIVE TitleIndex(_)
TitleIndex(titles) ==
    IF titles = <<>> THEN <<>>
    ELSE LET before == TitleIndex(SubSeq(titles, 1, Len(titles) - 1))
             t == normalize_text(Some(titles[Len(titles)]))
             idx == Len(titles) - 1
         IN  IF \E i \in 1..Len(before) : before[i].t = t
             THEN [i \in 1..Len(before) |->
                      IF before[i].t = t THEN [t |-> t, idx |-> idx] ELSE before[i]]
             ELSE Append(before, [t |-> t, idx |-> idx])

\* _title_index[t]
IndexAt(t) == (CHOOSE e \in Range(_title_index) : e.t = t).idx

\* t1 in t2 for strings
Contains(t2, t1) ==
    \E i \in 1..(Len(t2) - Len(t1) + 1) : SubSeq(t2, i, i + Len(t1) - 1) = t1

Keys == [i \in 1..Len(_title_index) |-> _title_index[i].t]

Stages_SubstringFirst == <<"exact", "substring", "fuzzy">>

\* the order find_movie_index_by_name tries the stages in
Stages == <<"exact", "fuzzy", "substring">>

\* what one stage of the lookup finds: None or the row
StageResult(stage, norm) ==
    CASE stage = "exact" ->
           IF norm \in Range(Keys) THEN Some(IndexAt(norm)) ELSE None
      [] stage = "fuzzy" ->
           LET matches == get_close_matches(norm, Keys)
           IN  IF matches # None THEN Some(IndexAt(Get(matches))) ELSE None
      [] stage = "substring" ->
           LET hits == {i \in 1..Len(Keys) : Contains(Keys[i], norm)}
           IN  IF hits # {} THEN Some(_title_index[CHOOSE i \in hits : \A j \in hits : i <= j].idx)
               ELSE None

\* find_movie_index_by_name from stage number n on: the stages consulted and the row
\* returned, None for (None, None)
RECURSIVE LookupFrom(_, _, _)
LookupFrom(n, norm, consulted) ==
    IF n > Len(Stages) THEN [consulted |-> consulted, idx |-> None]
    ELSE LET found == StageResult(Stages[n], norm)
         IN  IF found # None
             THEN [consulted |-> Append(consulted, Stages[n]), idx |-> found]
             ELSE LookupFrom(n + 1, norm, Append(consulted, Stages[n]))

find_movie_index_by_name(name) == LookupFrom(1, normalize_text(Some(name)), <<>>)

FindMovieIndexByName(name) ==
    /\ lookup_call = None
    /\ LET r == find_movie_index_by_name(name)
       IN  lookup_call' = Some([name |-> name, norm |-> normalize_text(Some(name)),
                                consulted |-> r.consulted, idx |-> r.idx])
    /\ UNCHANGED <<_df, _sentence_model, _knn, similar_call, _title_index>>
    /\ UNCHANGED <<mergeVars, banditVars, requestVars>>
    /\ UNCHANGED <<buildVars, fusionVars, tmdbVars>>

\* the catalog build_model leaves: its rows and the index of their normalized titles
InitLookup ==
    /\ \E titles \in SeqsUpTo(RawTitles, MaxTitles) :
          /\ _df = Len(titles)
          /\ _title_index = TitleIndex(titles)
    /\ _sentence_model = None
    /\ _knn = None
    /\ similar_call = None
    /\ lookup_call = None
    /\ MergeIdle
    /\ BanditIdle
    /\ RequestIdle
    /\ BuildIdle
    /\ FusionIdle
    /\ TmdbIdle

NextLookup == \E name \in RawTitles : FindMovieIndexByName(name)

SpecLookup == InitLookup /\ [][NextLookup]_vars

\* ------------------------------------------------------------------------
\* Rating merge store
\* ------------------------------------------------------------------------
CsvRow(u, m, r) == [user_id |-> u, movie_id |-> m, rating |-> r, source |-> "csv"]

Key(row) == <<row.user_id, row.movie_id>>

\* pd.read_csv(RATINGS_CSV) with the renamed columns and source = 'csv'
ReadCsvRatings == csv_ratings

\* convert_id keeps an id that is a digit string; the ids of the ratings file are
\* integers, so every id is kept.  The filtered frame the function returns is
\* dropped by its caller, so no row is removed either.
convert_movie_ids_to_tmdb(rows) == rows

\* what load_firebase_ratings returns: nothing when the store is disabled
load_firebase_ratings ==
    IF ~FIREBASE_ENABLED THEN <<>> ELSE firebase_collections

\* firebase_df: the live rows tagged with their source
FirebaseDf(rows) ==
    [i \in 1..Len(rows) |-> [user_id |-> rows[i].user_id, movie_id |-> rows[i].movie_id,
                             rating |-> rows[i].rating, source |-> "firebase"]]

\* DataFrame.drop_duplicates(subset=['user_id','movie_id'], keep='last')
drop_duplicates_last(rows) ==
    Pick(rows, {i \in 1..Len(rows) :
                  \A j \in (i + 1)..Len(rows) : Key(rows[j]) # Key(rows[i])}, 1)

\* steps 1-3 of load_and_merge_ratings: the table built when the cache is not used
MergeRatings ==
    LET csv == convert_movie_ids_to_tmdb(ReadCsvRatings)
        firebase_ratings == IF FIREBASE_ENABLED THEN load_firebase_ratings ELSE <<>>
    IN  IF Len(firebase_ratings) > 0
        THEN drop_duplicates_last(csv \o FirebaseDf(firebase_ratings))
        ELSE csv

\* the value load_and_merge_ratings(force) leaves in user_movie_ratings
MergedTable(force) ==
    IF ~force /\ merged_cache # None THEN Get(merged_cache) ELSE MergeRatings

LoadAndMergeRatings(force) ==
    /\ merge_calls < MaxMergeCalls
    /\ user_movie_ratings' = Some(MergedTable(force))
    /\ merged_cache' = IF ~force /\ merged_cache # None
                       THEN merged_cache ELSE Some(MergeRatings)
    /\ merge_calls' = merge_calls + 1
    /\ UNCHANGED <<FIREBASE_ENABLED, csv_ratings, firebase_collections>>
    /\ UNCHANGED <<banditVars, similarVars, requestVars>>
    /\ UNCHANGED <<buildVars, fusionVars, tmdbVars>>

MergeCached == LoadAndMergeRatings(FALSE)
MergeForced == LoadAndMergeRatings(TRUE)

InitMerge ==
    /\ FIREBASE_ENABLED \in BOOLEAN
    /\ csv_ratings \in SeqsUpTo({CsvRow(u, m, r) : u \in Users, m \in Movies, r \in Ratings},
                                MaxCsvRows)
    /\ firebase_collections \in
          SeqsUpTo({[user_id |-> u, movie_id |-> m, rating |-> r] :
                        u \in Users, m \in Movies, r \in Ratings}, MaxLiveRows)
    /\ merged_cache = None
    /\ user_movie_ratings = None
    /\ merge_calls = 0
    /\ BanditIdle
    /\ SimilarIdle
    /\ RequestIdle
    /\ BuildIdle
    /\ FusionIdle
    /\ TmdbIdle

NextMerge == MergeCached \/ MergeForced

SpecMerge == InitMerge /\ [][NextMerge]_vars

\* ------------------------------------------------------------------------
\* By-user request (recommend_personalization_logic)
\* ------------------------------------------------------------------------
MaxRequests == 2
MaxLiveDocs == 2

RequestUsers == {"u1", "u2", "u3"}
\* the users who rate through the application; "u1" is known from the batch file only
LiveUsers == {"u2", "u3"}
\* the tmdb ids of the catalog _df
CatalogMovies == {1, 2, 3}

\* the models in the order train_ensemble_als_models inserts them
ModelNames == <<"als", "bpr", "lmf">>

\* how a retraining can go: the set of models whose fit() raises (none, the first
\* one, all of them), and whether dump() writes the blob
TrainOutcomes ==
    {[failed |-> {}, dumped |-> TRUE], [failed |-> {"als"}, dumped |-> TRUE],
     [failed |-> {"als", "bpr", "lmf"}, dumped |-> TRUE], [failed |-> {}, dumped |-> FALSE]}

\* n_samples=min(20, len(candidate_movie_ids))
SampleCap == 20
\* explore_rate=0.2, in percent
RequestExploreRate == 20

\* "is_exploration": total_feedback < 5
ExplorationLimit == 5

\* total_feedback = alpha.get(movie_id, 1) + beta_param.get(movie_id, 1) - 2
total_feedback(b, movie_id) ==
    DictGet(b.alpha, movie_id, 1) + DictGet(b.beta_param, movie_id, 1) - 2

\* the flag of a result of the by-user request
is_exploration(b, movie_id) == total_feedback(b, movie_id) < ExplorationLimit

\* Series.unique(): the values in the order of their first occurrence
RECURSIVE Uniq(_)
Uniq(s) ==
    IF s = <<>> THEN <<>>
    ELSE LET r == Uniq(SubSeq(s, 1, Len(s) - 1))
         IN  IF s[Len(s)] \in Range(r) THEN r ELSE Append(r, s[Len(s)])

\* {value: idx for idx, value in enumerate(values)}[x], 0-based
IndexOf(s, x) == (CHOOSE i \in 1..Len(s) : s[i] = x) - 1

\* a set of integers as the ascending list
RECURSIVE Ascending(_)
Ascending(S) ==
    IF S = {} THEN <<>>
    ELSE LET x == CHOOSE y \in S : \A z \in S : y <= z
         IN  <<x>> \o Ascending(S \ {x})

\* str(payload.get("user_id") or payload.get("userId")): a payload without the
\* identifier, or with an empty one, gives the string "None"
UserIdOf(payload_user) ==
    IF payload_user = None \/ payload_user = Some("") THEN "None" ELSE Get(payload_user)

\* `if not user_id`
UserIdMissing(user_id) == user_id = ""

\* the bandit after update() for each row, in order
RECURSIVE Fed(_, _)
Fed(b, rows) ==
    IF rows = <<>> THEN b
    ELSE Fed(update(b, rows[1].movie_id, RewardOf(rows[1].rating)), Tail(rows))

BanditOf_AlwaysNew(bandits, merged, user_id) ==
    Fed(NewBandit, SelectSeq(merged, LAMBDA row : row.user_id = user_id))

\* the user's bandit: the one kept in thompson_bandits, or a new one fed with the
\* user's rows of the merged table
BanditOf(bandits, merged, user_id) ==
    IF user_id \in DOMAIN bandits THEN bandits[user_id]
    ELSE Fed(NewBandit, SelectSeq(merged, LAMBDA row : row.user_id = user_id))

\* the documents of users/<user_id>/ratings
UserDocs(user_id) ==
    IF user_id \in DOMAIN firestore_ratings THEN firestore_ratings[user_id] ELSE <<>>

\* pd.concat([user_movie_ratings, user_ratings_df])
CombinedRatings(merged, user_id, user_ratings) ==
    merged \o [i \in 1..Len(user_ratings) |->
                 [user_id |-> user_id, movie_id |-> user_ratings[i].movie_id,
                  rating |-> user_ratings[i].rating, source |-> "nan"]]

\* the sum of the ratings of the rows of `rows` whose cell is <<user_id, movie_id>>
RECURSIVE CellSum(_, _, _)
CellSum(rows, user_id, movie_id) ==
    IF rows = <<>> THEN 0
    ELSE (IF rows[1].user_id = user_id /\ rows[1].movie_id = movie_id
          THEN rows[1].rating ELSE 0) + CellSum(Tail(rows), user_id, movie_id)

\* coo_matrix((data, (rows, cols)), shape).tocsr(): the stored cells by their 0-based
\* <<row, column>>; the entries given for one cell are added up
coo_matrix(combined, user_ids, movie_ids) ==
    [c \in {<<IndexOf(user_ids, combined[i].user_id),
              IndexOf(movie_ids, combined[i].movie_id)>> : i \in 1..Len(combined)} |->
        CellSum(combined, user_ids[c[1] + 1], movie_ids[c[2] + 1])]

\* the models model.fit(rating_matrix) leaves: row i of user_factors is learnt from
\* user user_ids[i], row j of item_factors from movie movie_ids[j], both from the
\* cells of rating_matrix
Trained(rating_matrix, user_ids, movie_ids, failed) ==
    [name \in Range(ModelNames) \ failed |->
        [user_factors |-> user_ids, item_factors |-> movie_ids,
         fit_on |-> rating_matrix]]

\* the batch table as combined_ratings, and the models an earlier run trained on it
BatchModels(rows) ==
    LET user_ids == Uniq([i \in 1..Len(rows) |-> rows[i].user_id])
        movie_ids == Uniq([i \in 1..Len(rows) |-> rows[i].movie_id])
    IN  Trained(coo_matrix(rows, user_ids, movie_ids), user_ids, movie_ids, {})

\* list(ensemble_models.values())[0]
FirstModel(models) ==
    models[ModelNames[CHOOSE i \in 1..Len(ModelNames) :
                         /\ ModelNames[i] \in DOMAIN models
                         /\ \A j \in 1..(i - 1) : ModelNames[j] \notin DOMAIN models]]

ShapeMismatch_UsersOnly(models, n_users, n_movies) ==
    Len(FirstModel(models).user_factors) # n_users

\* the compatibility check of the cached models against the current matrix
ShapeMismatch(models, n_users, n_movies) ==
    \/ Len(FirstModel(models).user_factors) # n_users
    \/ Len(FirstModel(models).item_factors) # n_movies

NeedRetrain(models, force_retrain, n_users, n_movies) ==
    \/ force_retrain
    \/ DOMAIN models = {}
    \/ (DOMAIN models # {} /\ ~force_retrain /\ ShapeMismatch(models, n_users, n_movies))

\* the models ensemble_recommendations skips
SkippedModels(models, user_idx, n_movies) ==
    {name \in DOMAIN models :
        \/ user_idx >= Len(models[name].user_factors)
        \/ n_movies # Len(models[name].item_factors)}

\* what the request leaves and returns once the cached blob is loaded
RequestOutcomes(payload_user, force_retrain) ==
    LET loaded == Get(ensemble_cache)
        merged == IF user_movie_ratings = None THEN MergedTable(FALSE)
                  ELSE Get(user_movie_ratings)
        user_id == UserIdOf(payload_user)
        b0 == BanditOf(thompson_bandits, merged, user_id)
        docs == IF FIREBASE_ENABLED THEN UserDocs(user_id) ELSE <<>>
        Base(status, b, models, cache, info) ==
            [status |-> status, user_id |-> user_id, merged |-> merged,
             bandits |-> IF b = None THEN thompson_bandits
                         ELSE Put(thompson_bandits, user_id, Get(b)),
             models |-> models, cache |-> cache, info |-> info]
        none == [retrained |-> FALSE, user_ids |-> <<>>, movie_ids |-> <<>>,
                 rating_matrix |-> <<>>,
                 user_idx |-> -1, scored |-> {}, skipped |-> {}, fused |-> {},
                 candidates |-> {}, sampled |-> EmptyBag]
        \* the stream of the user's documents fails after k of them
        failures == IF FIREBASE_ENABLED
                    THEN {Base("500", Some(Fed(b0, SubSeq(docs, 1, k))), loaded,
                               ensemble_cache, none) : k \in 0..Len(docs)}
                    ELSE {}
        b1 == Fed(b0, docs)
        combined == CombinedRatings(merged, user_id, docs)
        movie_ids == Uniq([i \in 1..Len(combined) |-> combined[i].movie_id])
        user_ids == Uniq([i \in 1..Len(combined) |-> combined[i].user_id])
        rating_matrix == coo_matrix(combined, user_ids, movie_ids)
        need_retrain == NeedRetrain(loaded, force_retrain, Len(user_ids), Len(movie_ids))
        user_idx == IndexOf(user_ids, user_id)
        liked == {combined[i].movie_id : i \in {j \in 1..Len(combined) :
                                                    combined[j].user_id = user_id}}
        Served(models, cache) ==
            LET skipped == SkippedModels(models, user_idx, Len(movie_ids))
                scored == DOMAIN models \ skipped
                fused == IF scored = {} THEN {} ELSE Range(movie_ids) \ liked
                info == [retrained |-> need_retrain, user_ids |-> user_ids,
                         movie_ids |-> movie_ids, rating_matrix |-> rating_matrix,
                         user_idx |-> user_idx,
                         scored |-> scored, skipped |-> skipped, fused |-> fused,
                         candidates |-> {}, sampled |-> EmptyBag]
                candidates == IF fused # {} THEN fused
                              ELSE CatalogMovies \ {docs[i].movie_id : i \in 1..Len(docs)}
            IN  IF fused = {} /\ ~df_has_vote_count
                THEN \* popular_movies.get('vote_count', 0) is the int 0: .fillna raises
                     {Base("raised", Some(b1), models, cache, info)}
                ELSE {Base(IF out.raised THEN "raised" ELSE "200", Some(out.bandit), models,
                           cache, [info EXCEPT !.candidates = candidates,
                                               !.sampled = out.result]) :
                         out \in SampleOutcomes(b1, Ascending(candidates),
                                                Min(SampleCap, Cardinality(candidates)),
                                                RequestExploreRate)}
    IN  IF UserIdMissing(user_id)
        THEN {Base("400", None, loaded, ensemble_cache, none)}
        ELSE failures \cup
             (IF docs = <<>>
              THEN {Base("400", Some(b1), loaded, ensemble_cache, none)}
              ELSE IF need_retrain
              THEN \* train_ensemble_als_models: dump() writes the blob, or fails and
                   \* leaves the old one
                   UNION {LET models == Trained(rating_matrix, user_ids, movie_ids, t.failed)
                          IN  Served(models, IF t.dumped THEN Some(models) ELSE ensemble_cache) :
                          t \in TrainOutcomes}
              ELSE Served(loaded, ensemble_cache))

\* recommend_personalization_logic(payload)
Personalize(payload_user, force_retrain) ==
    /\ requests < MaxRequests
    /\ requests' = requests + 1
    /\ IF ensemble_cache = None
       THEN \* load(ensemble_cache) raises before anything else is done
            /\ request' = Some([status |-> "raised", user_id |-> UserIdOf(payload_user),
                                payload_user |-> payload_user, loaded |-> <<>>,
                                info |-> [retrained |-> FALSE, user_ids |-> <<>>,
                                          movie_ids |-> <<>>, rating_matrix |-> <<>>,
                                          user_idx |-> -1, scored |-> {},
                                          skipped |-> {}, fused |-> {}, candidates |-> {},
                                          sampled |-> EmptyBag]])
            /\ UNCHANGED <<ensemble_cache, ensemble_models, thompson_bandits,
                           user_movie_ratings, merged_cache, merge_calls>>
       ELSE \E out \in RequestOutcomes(payload_user, force_retrain) :
               /\ request' = Some([status |-> out.status, user_id |-> out.user_id,
                                   payload_user |-> payload_user,
                                   loaded |-> Get(ensemble_cache), info |-> out.info])
               /\ ensemble_models' = out.models
               /\ ensemble_cache' = out.cache
               /\ thompson_bandits' = out.bandits
               /\ user_movie_ratings' = Some(out.merged)
               /\ merged_cache' = IF user_movie_ratings = None /\ merged_cache = None
                                  THEN Some(out.merged) ELSE merged_cache
               /\ merge_calls' = IF user_movie_ratings = None THEN merge_calls + 1
                                 ELSE merge_calls
    /\ UNCHANGED <<FIREBASE_ENABLED, csv_ratings, firebase_collections, firestore_ratings,
                   df_has_vote_count, threads>>
    /\ UNCHANGED <<banditVars, similarVars>>
    /\ UNCHANGED <<buildVars, fusionVars, tmdbVars>>

\* a user rates a movie: a new document under users/<user>/ratings
Rate(user, movie_id, rating) ==
    /\ Len(firestore_ratings["u2"]) + Len(firestore_ratings["u3"]) < MaxLiveDocs
    /\ firestore_ratings' = [firestore_ratings EXCEPT
                               ![user] = Append(@, [movie_id |-> movie_id, rating |-> rating])]
    /\ UNCHANGED <<df_has_vote_count, ensemble_cache, ensemble_models, thompson_bandits,
                   requests, request, threads>>
    /\ UNCHANGED <<mergeVars, banditVars, similarVars>>
    /\ UNCHANGED <<buildVars, fusionVars, tmdbVars>>

Init ==
    /\ FIREBASE_ENABLED \in BOOLEAN
    /\ csv_ratings = <<CsvRow("u1", 1, 8)>>
    /\ firebase_collections = <<>>
    /\ merged_cache = None
    /\ user_movie_ratings = None
    /\ merge_calls = 0
    /\ firestore_ratings = [u \in RequestUsers |-> <<>>]
    /\ df_has_vote_count \in BOOLEAN
    \* the blob an earlier run has left, trained on the batch data, or no blob yet
    /\ ensemble_cache \in {None, Some(BatchModels(csv_ratings))}
    /\ ensemble_models = <<>>
    /\ thompson_bandits = <<>>
    /\ requests = 0
    /\ request = None
    /\ threads = <<>>
    /\ BanditIdle
    /\ SimilarIdle
    /\ BuildIdle
    /\ FusionIdle
    /\ TmdbIdle

Next ==
    \/ \E payload_user \in {None, Some("")} \cup {Some(u) : u \in RequestUsers},
          force_retrain \in BOOLEAN : Personalize(payload_user, force_retrain)
    \/ \E user \in LiveUsers, movie_id \in Movies, rating \in Ratings :
          Rate(user, movie_id, rating)

Spec == Init /\ [][Next]_vars

\* A deployment whose live store also feeds the merged table: user "u2" has a rated
\* entry under users/u2/collections, which load_firebase_ratings reads, and rates
\* through users/u2/ratings, which the request reads.
InitHistory ==
    /\ FIREBASE_ENABLED = TRUE
    /\ csv_ratings = <<CsvRow("u1", 1, 8)>>
    /\ \E m \in Movies, r \in Ratings :
          firebase_collections = <<[user_id |-> "u2", movie_id |-> m, rating |-> r]>>
    /\ merged_cache = None
    /\ user_movie_ratings = None
    /\ merge_calls = 0
    /\ firestore_ratings = [u \in RequestUsers |-> <<>>]
    /\ df_has_vote_count \in BOOLEAN
    /\ ensemble_cache = Some(BatchModels(MergeRatings))
    /\ ensemble_models = <<>>
    /\ thompson_bandits = <<>>
    /\ requests = 0
    /\ request = None
    /\ threads = <<>>
    /\ BanditIdle
    /\ SimilarIdle
    /\ BuildIdle
    /\ FusionIdle
    /\ TmdbIdle

SpecHistory == InitHistory /\ [][Next]_vars

\* ------------------------------------------------------------------------
\* By-user requests running at once
\* ------------------------------------------------------------------------
\* app.run (main.py:1291) serves every request in a thread of its own, and the handler
\* takes no lock: the requests share user_movie_ratings, ensemble_models,
\* thompson_bandits and the blob. A step below is a stretch of the handler between
\* two accesses to what is shared; a request's payload has no force_retrain.
MaxThreads == 2

ThreadIds == 1..MaxThreads

\* a request that has just entered recommend_personalization_logic
ThreadStart(user_id) ==
    [pc |-> "load", user_id |-> user_id, user_ratings |-> <<>>, user_ids |-> <<>>,
     movie_ids |-> <<>>, rating_matrix |-> <<>>, checked |-> None,
     scored_with |-> None, skipped |-> {}, applied |-> <<>>, status |-> "running"]

\* thread t goes on with the locals changed as in the record change
Goes(t, change) ==
    threads' = [threads EXCEPT ![t] =
                  [f \in DOMAIN threads[t] |->
                     IF f \in DOMAIN change THEN change[f] ELSE threads[t][f]]]

MovieIdsOf(rows) == [i \in 1..Len(rows) |-> rows[i].movie_id]

\* ensemble_models = load(ensemble_cache), then `if user_movie_ratings is None`
LoadBlob(t) ==
    /\ threads[t].pc = "load"
    /\ IF ensemble_cache = None
       THEN /\ Goes(t, [pc |-> "done", status |-> "raised"])
            /\ UNCHANGED ensemble_models
       ELSE /\ ensemble_models' = Get(ensemble_cache)
            /\ Goes(t, [pc |-> IF user_movie_ratings = None THEN "merging" ELSE "bandit"])
    /\ UNCHANGED <<firestore_ratings, df_has_vote_count, ensemble_cache, thompson_bandits,
                   requests, request>>
    /\ UNCHANGED <<mergeVars, banditVars, similarVars>>
    /\ UNCHANGED <<buildVars, fusionVars, tmdbVars>>

\* load_and_merge_ratings() returns to the request that found no merged table
MergeDone(t) ==
    /\ threads[t].pc = "merging"
    /\ user_movie_ratings' = Some(MergedTable(FALSE))
    /\ merged_cache' = IF merged_cache # None THEN merged_cache ELSE Some(MergeRatings)
    /\ merge_calls' = merge_calls + 1
    /\ Goes(t, [pc |-> "bandit"])
    /\ UNCHANGED <<FIREBASE_ENABLED, csv_ratings, firebase_collections>>
    /\ UNCHANGED <<firestore_ratings, df_has_vote_count, ensemble_cache, ensemble_models,
                   thompson_bandits, requests, request>>
    /\ UNCHANGED <<banditVars, similarVars>>
    /\ UNCHANGED <<buildVars, fusionVars, tmdbVars>>

\* `if user_id not in thompson_bandits`
BanditCheck(t) ==
    /\ threads[t].pc = "bandit"
    /\ Goes(t, [pc |-> IF threads[t].user_id \in DOMAIN thompson_bandits
                       THEN "stream" ELSE "create"])
    /\ UNCHANGED <<firestore_ratings, df_has_vote_count, ensemble_cache, ensemble_models,
                   thompson_bandits, requests, request>>
    /\ UNCHANGED <<mergeVars, banditVars, similarVars>>
    /\ UNCHANGED <<buildVars, fusionVars, tmdbVars>>

\* thompson_bandits[user_id] = ThompsonSamplingRecommender(), then one update for
\* each row of the user in the merged table
BanditCreate(t) ==
    /\ threads[t].pc = "create"
    /\ LET history == SelectSeq(Get(user_movie_ratings),
                                LAMBDA row : row.user_id = threads[t].user_id)
       IN  /\ thompson_bandits' = Put(thompson_bandits, threads[t].user_id,
                                      Fed(NewBandit, history))
           /\ Goes(t, [pc |-> "stream",
                       applied |-> threads[t].applied \o MovieIdsOf(history)])
    /\ UNCHANGED <<firestore_ratings, df_has_vote_count, ensemble_cache, ensemble_models,
                   requests, request>>
    /\ UNCHANGED <<mergeVars, banditVars, similarVars>>
    /\ UNCHANGED <<buildVars, fusionVars, tmdbVars>>

\* the user's documents are read, with one update of thompson_bandits[user_id] for
\* each, until the stream ends or fails; then the index maps of the matrix are built
StreamRatings(t) ==
    /\ threads[t].pc = "stream"
    /\ LET user_id == threads[t].user_id
           docs == IF FIREBASE_ENABLED THEN UserDocs(user_id) ELSE <<>>
           combined == CombinedRatings(Get(user_movie_ratings), user_id, docs)
       IN  \/ /\ FIREBASE_ENABLED
              /\ \E k \in 0..Len(docs) :
                    /\ thompson_bandits' =
                          [thompson_bandits EXCEPT ![user_id] = Fed(@, SubSeq(docs, 1, k))]
                    /\ Goes(t, [pc |-> "done", status |-> "500",
                                applied |-> threads[t].applied
                                               \o MovieIdsOf(SubSeq(docs, 1, k))])
           \/ /\ thompson_bandits' = [thompson_bandits EXCEPT ![user_id] = Fed(@, docs)]
              /\ IF docs = <<>>
                 THEN Goes(t, [pc |-> "done", status |-> "400"])
                 ELSE Goes(t, [pc |-> "check", user_ratings |-> docs,
                               applied |-> threads[t].applied \o MovieIdsOf(docs),
                               user_ids |-> Uniq([i \in 1..Len(combined) |->
                                                    combined[i].user_id]),
                               movie_ids |-> Uniq(MovieIdsOf(combined)),
                               rating_matrix |->
                                  coo_matrix(combined,
                                             Uniq([i \in 1..Len(combined) |->
                                                     combined[i].user_id]),
                                             Uniq(MovieIdsOf(combined)))])
    /\ UNCHANGED <<firestore_ratings, df_has_vote_count, ensemble_cache, ensemble_models,
                   requests, request>>
    /\ UNCHANGED <<mergeVars, banditVars, similarVars>>
    /\ UNCHANGED <<buildVars, fusionVars, tmdbVars>>

\* the compatibility check of ensemble_models against the request's matrix
CheckModels(t) ==
    /\ threads[t].pc = "check"
    /\ IF NeedRetrain(ensemble_models, FALSE, Len(threads[t].user_ids),
                      Len(threads[t].movie_ids))
       THEN Goes(t, [pc |-> "training"])
       ELSE Goes(t, [pc |-> "score", checked |-> Some(ensemble_models)])
    /\ UNCHANGED <<firestore_ratings, df_has_vote_count, ensemble_cache, ensemble_models,
                   thompson_bandits, requests, request>>
    /\ UNCHANGED <<mergeVars, banditVars, similarVars>>
    /\ UNCHANGED <<buildVars, fusionVars, tmdbVars>>

\* train_ensemble_als_models returns: ensemble_models = trained_models, and dump
TrainDone(t) ==
    /\ threads[t].pc = "training"
    /\ \E o \in TrainOutcomes :
          LET models == Trained(threads[t].rating_matrix, threads[t].user_ids,
                                threads[t].movie_ids, o.failed)
          IN  /\ ensemble_models' = models
              /\ ensemble_cache' = IF o.dumped THEN Some(models) ELSE ensemble_cache
              /\ Goes(t, [pc |-> "score", checked |-> Some(models)])
    /\ UNCHANGED <<firestore_ratings, df_has_vote_count, thompson_bandits, requests,
                   request>>
    /\ UNCHANGED <<mergeVars, banditVars, similarVars>>
    /\ UNCHANGED <<buildVars, fusionVars, tmdbVars>>

\* ensemble_recommendations reads the global ensemble_models; then the fallback, the
\* bandit sampling and the result
Score(t) ==
    /\ threads[t].pc = "score"
    /\ LET user_id == threads[t].user_id
           user_idx == IndexOf(threads[t].user_ids, user_id)
           skipped == SkippedModels(ensemble_models, user_idx, Len(threads[t].movie_ids))
           scored == DOMAIN ensemble_models \ skipped
           combined == CombinedRatings(Get(user_movie_ratings), user_id,
                                       threads[t].user_ratings)
           liked == {combined[i].movie_id :
                        i \in {j \in 1..Len(combined) : combined[j].user_id = user_id}}
           fused == IF scored = {} THEN {} ELSE Range(threads[t].movie_ids) \ liked
           candidates == IF fused # {} THEN fused
                         ELSE CatalogMovies \ Range(MovieIdsOf(threads[t].user_ratings))
           seen == [scored_with |-> Some(ensemble_models), skipped |-> skipped]
       IN  IF fused = {} /\ ~df_has_vote_count
           THEN /\ Goes(t, seen @@ [pc |-> "done", status |-> "raised"])
                /\ UNCHANGED thompson_bandits
           ELSE \E out \in SampleOutcomes(thompson_bandits[user_id], Ascending(candidates),
                                          Min(SampleCap, Cardinality(candidates)),
                                          RequestExploreRate) :
                   /\ thompson_bandits' = [thompson_bandits EXCEPT ![user_id] = out.bandit]
                   /\ Goes(t, seen @@ [pc |-> "done",
                                       status |-> IF out.raised THEN "raised" ELSE "200"])
    /\ UNCHANGED <<firestore_ratings, df_has_vote_count, ensemble_cache, ensemble_models,
                   requests, request>>
    /\ UNCHANGED <<mergeVars, banditVars, similarVars>>
    /\ UNCHANGED <<buildVars, fusionVars, tmdbVars>>

\* the server with MaxThreads requests accepted, none started
InitThreads ==
    /\ FIREBASE_ENABLED \in BOOLEAN
    /\ csv_ratings = <<CsvRow("u1", 1, 8)>>
    /\ firebase_collections = <<>>
    /\ merged_cache = None
    /\ user_movie_ratings = None
    /\ merge_calls = 0
    /\ \E d2 \in {<<>>, <<[movie_id |-> 1, rating |-> 8]>>},
          d3 \in {<<[movie_id |-> 1, rating |-> 8]>>, <<[movie_id |-> 2, rating |-> 4]>>} :
          firestore_ratings = [u \in RequestUsers |->
                                 IF u = "u2" THEN d2 ELSE IF u = "u3" THEN d3 ELSE <<>>]
    /\ df_has_vote_count \in BOOLEAN
    /\ ensemble_cache \in {None, Some(BatchModels(csv_ratings))}
    /\ ensemble_models = <<>>
    /\ thompson_bandits = <<>>
    /\ requests = 0
    /\ request = None
    /\ threads \in [ThreadIds -> {ThreadStart(u) : u \in RequestUsers}]
    /\ BanditIdle
    /\ SimilarIdle
    /\ BuildIdle
    /\ FusionIdle
    /\ TmdbIdle

NextThreads ==
    \E t \in ThreadIds :
       \/ LoadBlob(t)
       \/ MergeDone(t)
       \/ BanditCheck(t)
       \/ BanditCreate(t)
       \/ StreamRatings(t)
       \/ CheckModels(t)
       \/ TrainDone(t)
       \/ Score(t)

SpecThreads == InitThreads /\ [][NextThreads]_vars

\* ------------------------------------------------------------------------
\* Score fusion (ensemble_recommendations)
\* ------------------------------------------------------------------------
\* Scores are integers and the weights are in tenths, so that the fused scores are
\* exact. A dict is the list of its <<key, value>> items in insertion order.
MaxFusedN == 2

\* the movie indices the models can recommend
FusionItems == {0, 1}

\* the raw scores a model gives
RawScores == {1, 2, 3}

\* weights = {'als': 0.5, 'bpr': 0.3, 'lmf': 0.2}
weights == [als |-> 5, bpr |-> 3, lmf |-> 2]

\* what model.recommend(user_idx, user_items, N=n, ...) can return: at most n
\* <<movie_idx, score>> pairs, best first, no movie twice
Recommended(n) ==
    {r \in SeqsUpTo(FusionItems \X RawScores, n) :
        /\ \A i, j \in 1..Len(r) : i # j => r[i][1] # r[j][1]
        /\ \A i \in 1..(Len(r) - 1) : r[i][2] >= r[i + 1][2]}

\* how a model of the ensemble goes through the loop: it is not in ensemble_models
\* (its training failed), it is skipped by a shape test, its recommend raises, or it
\* returns its recommendations
Scorings(n) ==
    {[kind |-> k, recs |-> <<>>] : k \in {"untrained", "skipped", "raised"}}
    \cup {[kind |-> "scored", recs |-> r] : r \in Recommended(n)}

RECURSIVE AddRecs_Overwrite(_, _, _)
AddRecs_Overwrite(all_recs, name, recs) ==
    IF recs = <<>> THEN all_recs
    ELSE LET movie_idx == recs[1][1]
             add == weights[name] * recs[1][2]
             at == {i \in 1..Len(all_recs) : all_recs[i][1] = movie_idx}
             next == IF at = {} THEN Append(all_recs, <<movie_idx, add>>)
                     ELSE [i \in 1..Len(all_recs) |->
                             IF i \in at THEN <<movie_idx, add>> ELSE all_recs[i]]
         IN  AddRecs_Overwrite(next, name, Tail(recs))

\* for movie_idx, score in zip(recs[0], recs[1]): all_recs[movie_idx] (0 when absent)
\* += weights[name] * score
RECURSIVE AddRecs(_, _, _)
AddRecs(all_recs, name, recs) ==
    IF recs = <<>> THEN all_recs
    ELSE LET movie_idx == recs[1][1]
             add == weights[name] * recs[1][2]
             at == {i \in 1..Len(all_recs) : all_recs[i][1] = movie_idx}
             next == IF at = {} THEN Append(all_recs, <<movie_idx, add>>)
                     ELSE [i \in 1..Len(all_recs) |->
                             IF i \in at THEN <<movie_idx, all_recs[i][2] + add>>
                             ELSE all_recs[i]]
         IN  AddRecs(next, name, Tail(recs))

\* the loop over ensemble_models.items(), from the i-th model on: a model that is
\* skipped (continue) or whose recommend raises (except) leaves all_recs as it is
RECURSIVE FuseFrom(_, _, _)
FuseFrom(i, scoring, all_recs) ==
    IF i > Len(ModelNames) THEN all_recs
    ELSE LET name == ModelNames[i]
         IN  FuseFrom(i + 1, scoring,
                      IF scoring[name].kind = "scored"
                      THEN AddRecs(all_recs, name, scoring[name].recs)
                      ELSE all_recs)

\* sorted(items, key=lambda x: -x[1]): best first, equal scores in their given order
RECURSIVE sorted_by_score(_)
sorted_by_score(items) ==
    IF items = <<>> THEN <<>>
    ELSE LET best == CHOOSE i \in 1..Len(items) :
                        /\ \A j \in 1..Len(items) : items[j][2] <= items[i][2]
                        /\ \A j \in 1..(i - 1) : items[j][2] < items[i][2]
         IN  <<items[best]>> \o sorted_by_score(Pick(items, (1..Len(items)) \ {best}, 1))

\* ensemble_recommendations(user_idx, user_items, movie_ids, N): the <<movie_idx,
\* fused score>> pairs returned
ensemble_recommendations(scoring, N) ==
    LET all_recs == FuseFrom(1, scoring, <<>>)
        sorted_recs == sorted_by_score(all_recs)
    IN  IF all_recs = <<>> THEN <<>> ELSE SubSeq(sorted_recs, 1, Min(N, Len(sorted_recs)))

EnsembleRecommendations(scoring, N) ==
    /\ fusion_call' = Some([scoring |-> scoring, N |-> N,
                            result |-> ensemble_recommendations(scoring, N)])
    /\ UNCHANGED <<mergeVars, banditVars, similarVars, requestVars>>
    /\ UNCHANGED <<buildVars, tmdbVars>>

InitFusion ==
    /\ fusion_call = None
    /\ MergeIdle
    /\ BanditIdle
    /\ SimilarIdle
    /\ RequestIdle
    /\ BuildIdle
    /\ TmdbIdle

\* each model is asked for N=min(N * 2, model.item_factors.shape[0]) recommendations
NextFusion ==
    /\ fusion_call = None
    /\ \E N \in 1..MaxFusedN :
          \E scoring \in [Range(ModelNames) ->
                            Scorings(Min(N * 2, Cardinality(FusionItems)))] :
             EnsembleRecommendations(scoring, N)

SpecFusion == InitFusion /\ [][NextFusion]_vars

\* ------------------------------------------------------------------------
\* Catalog build and its cache artifacts (build_model, build_index)
\* ------------------------------------------------------------------------
\* A catalog row is the text of its movie; the rows of the file are those left by
\* the cleaning steps of build_model.
MaxBuildRows == 2

CatalogTexts == {"a", "b", "c"}

\* the catalogs the file can hold: TF-IDF needs at least one document
Catalogs == SeqsUpTo(CatalogTexts, MaxBuildRows) \ {<<>>}

\* self.model.encode(texts, ..., normalize_embeddings=True): the vector of a text
Encode(text) == <<"embedding", text>>

\* SentenceTransformerRecommender.build_index(movies_df): what it leaves in the
\* recommender and in the blob; `dumped` is whether dump() wrote the blob
build_index(movies_df, dumped) ==
    IF embeddings_cache # None
    THEN [embeddings |-> Get(embeddings_cache).embeddings,
          movie_ids |-> Get(embeddings_cache).movie_ids, cache |-> embeddings_cache]
    ELSE LET built == [embeddings |-> [i \in 1..Len(movies_df) |-> Encode(movies_df[i])],
                       movie_ids |-> movies_df]
         IN  [embeddings |-> built.embeddings, movie_ids |-> built.movie_ids,
              cache |-> IF dumped THEN Some(built) ELSE embeddings_cache]

\* `if not force and os.path.exists(cache_path)`
UsesModelCache(force) == ~force /\ model_cache # None

\* build_model(force=force): the catalog it leaves in _df and the sentence model
BuildModel(force, dumped) ==
    LET df == IF UsesModelCache(force) THEN Get(model_cache) ELSE movies_csv
        index == build_index(df, dumped)
    IN  /\ build_call' = Some([force |-> force, catalog |-> movies_csv, df |-> df,
                               embeddings |-> index.embeddings,
                               movie_ids |-> index.movie_ids])
        /\ embeddings_cache' = index.cache
        /\ model_cache' = IF UsesModelCache(force) THEN model_cache ELSE Some(df)
        /\ UNCHANGED movies_csv
        /\ UNCHANGED <<mergeVars, banditVars, similarVars, requestVars>>
        /\ UNCHANGED <<fusionVars, tmdbVars>>

\* the catalog file is replaced
ChangeCatalog(rows) ==
    /\ rows # movies_csv
    /\ movies_csv' = rows
    /\ UNCHANGED <<model_cache, embeddings_cache, build_call>>
    /\ UNCHANGED <<mergeVars, banditVars, similarVars, requestVars>>
    /\ UNCHANGED <<fusionVars, tmdbVars>>

\* a first start: the catalog file and no blob
InitBuild ==
    /\ movies_csv \in Catalogs
    /\ model_cache = None
    /\ embeddings_cache = None
    /\ build_call = None
    /\ MergeIdle
    /\ BanditIdle
    /\ SimilarIdle
    /\ RequestIdle
    /\ FusionIdle
    /\ TmdbIdle

NextBuild ==
    \/ \E force \in BOOLEAN, dumped \in BOOLEAN : BuildModel(force, dumped)
    \/ \E rows \in Catalogs : ChangeCatalog(rows)

SpecBuild == InitBuild /\ [][NextBuild]_vars

\* ------------------------------------------------------------------------
\* External metadata lookups (fetch_tmdb_by_id, fetch_tmdb_by_search)
\* ------------------------------------------------------------------------
\* A JSON object is the function from its keys to their values, a JSON null is None.
\* A call that can raise gives [raised, value, cache]: whether it raised, the value
\* it returned otherwise, and _TMDB_CACHE after it.

\* the tmdb_id column of a catalog row: NaN (None) or an id
TmdbIds == {None, Some(1)}

\* the title column of a catalog row: "AB", "ab" or the empty string
MovieTitles == {<<"A", "B">>, <<"a", "b">>, <<>>}

\* the movie objects the service can send: the empty object, one with a null
\* poster_path, one with a poster_path
MovieObjects ==
    {<<>>} \cup {[poster_path |-> p, vote_average |-> Some(7)] :
                    p \in {None, Some("/p.jpg")}}

\* how GET /movie/<id> can end: requests.get, raise_for_status or resp.json() raises,
\* or the body is a movie object
IdResponses ==
    {[kind |-> "error", data |-> <<>>]} \cup {[kind |-> "json", data |-> d] : d \in MovieObjects}

\* how GET /search/movie can end: an error as above, a body without "results", a body
\* with an empty "results" list, or a list whose first entry is a movie object
SearchResponses ==
    {[kind |-> k, data |-> <<>>] : k \in {"error", "no_results_key", "empty_results"}}
    \cup {[kind |-> "first", data |-> d] : d \in MovieObjects}

Returned(value, cache) == [raised |-> FALSE, value |-> value, cache |-> cache]

Raised(cache) == [raised |-> TRUE, value |-> None, cache |-> cache]

Caught_Propagates(outcome) == outcome

\* try: ... except Exception: return None (or, in a caller, leave the value None)
Caught(outcome) ==
    IF outcome.raised THEN Returned(None, outcome.cache) ELSE outcome

\* str.lower() on a string
LowerOf(title) == [i \in 1..Len(title) |-> Lower(title[i])]

\* fetch_tmdb_by_id(tmdb_id)
fetch_tmdb_by_id(tmdb_id, response, cache) ==
    LET key == <<"id", tmdb_id>>
    IN  IF ~TMDB_API_KEY \/ tmdb_id = 0 THEN Returned(None, cache)
        ELSE IF key \in DOMAIN cache THEN Returned(cache[key], cache)
        ELSE Caught(IF response.kind = "error" THEN Raised(cache)
                    ELSE Returned(Some(response.data),
                                  Put(cache, key, Some(response.data))))

\* fetch_tmdb_by_search(title)
fetch_tmdb_by_search(title, response, cache) ==
    LET key == <<"search", LowerOf(title)>>
    IN  IF ~TMDB_API_KEY \/ title = <<>> THEN Returned(None, cache)
        ELSE IF key \in DOMAIN cache THEN Returned(cache[key], cache)
        ELSE Caught(CASE response.kind = "error" -> Raised(cache)
                      [] response.kind = "empty_results" ->
                            \* data.get("results", [None])[0] raises IndexError
                            Raised(cache)
                      [] response.kind = "no_results_key" ->
                            Returned(None, Put(cache, key, None))
                      [] response.kind = "first" ->
                            Returned(Some(response.data),
                                     Put(cache, key, Some(response.data))))

\* `tmdb and tmdb.get(field)`: the object is there, not empty, and the field is
\* there and not null
FieldOf(tmdb, field) ==
    IF tmdb # None /\ Get(tmdb) # <<>> THEN DictGet(Get(tmdb), field, None) ELSE None

\* TMDB_IMAGE_BASE + tmdb["poster_path"]
PosterOf(tmdb) ==
    IF FieldOf(tmdb, "poster_path") # None
    THEN Some(<<"https://image.tmdb.org/t/p/w500", Get(FieldOf(tmdb, "poster_path"))>>)
    ELSE None

\* the entry built for one row: whether building it raised, its poster and rating,
\* the cache it leaves, and whether a lookup gave an object
Entry(flow, tmdb_id, title, by_id, by_search, last) ==
    [flow |-> flow, tmdb_id |-> tmdb_id, title |-> title, by_id |-> by_id,
     by_search |-> by_search, raised |-> last.raised,
     found |-> ~last.raised /\ last.value # None,
     poster |-> IF last.raised THEN None ELSE PosterOf(last.value),
     rating |-> IF last.raised THEN None ELSE FieldOf(last.value, "vote_average"),
     cache |-> last.cache]

\* the metadata of one result of recommend_similar_by_index
SimilarEntry(tmdb_id, title, by_id, by_search) ==
    LET first == IF tmdb_id # None
                 THEN Caught(fetch_tmdb_by_id(Get(tmdb_id), by_id, _TMDB_CACHE))
                 ELSE Returned(None, _TMDB_CACHE)
        last == IF first.value = None
                THEN IF TMDB_API_KEY
                     THEN fetch_tmdb_by_search(title, by_search, first.cache)
                     ELSE Returned(None, first.cache)
                ELSE first
    IN  Entry("by_item", tmdb_id, title, by_id, by_search, last)

\* the metadata of one result of recommend_personalization_logic
PersonalEntry(tmdb_id, title, by_id, by_search) ==
    LET first == IF tmdb_id # None
                 THEN Caught(fetch_tmdb_by_id(Get(tmdb_id), by_id, _TMDB_CACHE))
                 ELSE Returned(None, _TMDB_CACHE)
        last == IF first.value = None \/ Get(first.value) = <<>>
                THEN fetch_tmdb_by_search(title, by_search, first.cache)
                ELSE first
    IN  Entry("by_user", tmdb_id, title, by_id, by_search, last)

BuildEntry(entry) ==
    /\ tmdb_call' = Some([f \in DOMAIN entry \ {"cache"} |-> entry[f]])
    /\ _TMDB_CACHE' = entry.cache
    /\ UNCHANGED TMDB_API_KEY
    /\ UNCHANGED <<mergeVars, banditVars, similarVars, requestVars>>
    /\ UNCHANGED <<buildVars, fusionVars>>

InitTmdb ==
    /\ TMDB_API_KEY \in BOOLEAN
    /\ _TMDB_CACHE = <<>>
    /\ tmdb_call = None
    /\ MergeIdle
    /\ BanditIdle
    /\ SimilarIdle
    /\ RequestIdle
    /\ BuildIdle
    /\ FusionIdle

NextTmdb ==
    \E tmdb_id \in TmdbIds, title \in MovieTitles, by_id \in IdResponses,
       by_search \in SearchResponses :
       \/ BuildEntry(SimilarEntry(tmdb_id, title, by_id, by_search))
       \/ BuildEntry(PersonalEntry(tmdb_id, title, by_id, by_search))

SpecTmdb == InitTmdb /\ [][NextTmdb]_vars

\* ------------------------------------------------------------------------
\* Claims
\* ------------------------------------------------------------------------
LiveRows == FirebaseDf(load_firebase_ratings)

InputKeys == {Key(r) : r \in Range(csv_ratings) \cup Range(LiveRows)}

\* C1: after load_and_merge_ratings the merged table holds exactly one row for each
\* (user_id, movie_id) pair of the two sources, and for a pair that both sources hold
\* that row is the live-source row; for every batch and live set, an empty live set and
\* a batch that repeats a pair included.
C1_MergeOneRowPerPairLiveWins ==
    user_movie_ratings # None =>
        LET t == Get(user_movie_ratings)
        IN  /\ \A k \in InputKeys : Cardinality({i \in 1..Len(t) : Key(t[i]) = k}) = 1
            /\ \A i \in 1..Len(t) : Key(t[i]) \in InputKeys
            /\ \A i \in 1..Len(t) :
                   (\E l \in Range(LiveRows) : Key(l) = Key(t[i]))
                       => t[i] \in Range(LiveRows)

\* C4: the first reference to an item creates its counters as (1, 1); update(item,
\* reward) then adds exactly 1 to successes when the rating is at least 3.5 (reward
\* above 0.5) and otherwise exactly 1 to failures, and no other item's counters change.
C4_UpdateAddsOne ==
    [][(bandit' # bandit /\ bandit_call' # None /\ Get(bandit_call').op = "update") =>
          LET c == Get(bandit_call')
              m == c.movie_id
              a0 == IF m \in DOMAIN bandit.alpha THEN bandit.alpha[m] ELSE 1
              b0 == IF m \in DOMAIN bandit.beta_param THEN bandit.beta_param[m] ELSE 1
          IN  /\ DOMAIN bandit'.alpha = DOMAIN bandit.alpha \cup {m}
              /\ DOMAIN bandit'.beta_param = DOMAIN bandit.beta_param \cup {m}
              /\ bandit'.alpha[m] = a0 + (IF c.rating >= 7 THEN 1 ELSE 0)
              /\ bandit'.beta_param[m] = b0 + (IF c.rating >= 7 THEN 0 ELSE 1)
              /\ \A k \in DOMAIN bandit.alpha \ {m} : bandit'.alpha[k] = bandit.alpha[k]
              /\ \A k \in DOMAIN bandit.beta_param \ {m} :
                     bandit'.beta_param[k] = bandit.beta_param[k]]_vars

\* a movie updated with a like and a dislike after its creation, beside another movie
C4_Witness ==
    /\ bandit_call # None
    /\ Get(bandit_call).op = "update"
    /\ \E m \in DOMAIN bandit.alpha :
          /\ bandit.alpha[m] = 2
          /\ bandit.beta_param[m] = 2
          /\ \E k \in DOMAIN bandit.alpha : k # m /\ bandit.beta_param[k] = 3

IsSample == bandit_call # None /\ Get(bandit_call).op = "sample"

\* the candidates of the last sample call that have little feedback
LowEvidenceCandidates ==
    {m \in Range(Get(bandit_call).call.candidate_movies) :
        bandit.alpha[m] + bandit.beta_param[m] < 10}

\* C6: sample returns a subset of the candidates with no item repeated: an item the
\* exploit step chose is never returned again by the explore step.
C6_SampleNoRepeats ==
    (IsSample /\ ~Get(bandit_call).raised) =>
        LET c == Get(bandit_call)
        IN  /\ BagToSet(c.result) \subseteq Range(c.call.candidate_movies)
            /\ \A m \in BagToSet(c.result) : CopiesIn(m, c.result) = 1

\* C7: the explore budget is n * explore_rate rounded down, the exploit budget is the
\* rest of n, the exploit step returns min(exploit budget, distinct candidates) items
\* and the returned list has at most n entries.
C7_SampleBudgets ==
    (IsSample /\ ~Get(bandit_call).raised) =>
        LET c == Get(bandit_call)
            n == c.call.n_samples
        IN  /\ c.call.n_explore * 100 <= n * c.call.explore_rate
            /\ n * c.call.explore_rate < (c.call.n_explore + 1) * 100
            /\ c.call.n_explore + c.call.n_exploit = n
            /\ Cardinality(c.exploit_recs) =
                  Min(c.call.n_exploit, Cardinality(Range(c.call.candidate_movies)))
            /\ c.exploit_recs \subseteq Range(c.call.candidate_movies)
            /\ BagCardinality(c.result) <= n

\* a budget that is rounded down (7 * 0.2) and an exploit step cut at its budget
C7_Witness ==
    /\ IsSample
    /\ ~Get(bandit_call).raised
    /\ Get(bandit_call).call.n_samples = 7
    /\ Get(bandit_call).call.explore_rate = 20
    /\ Len(Get(bandit_call).call.candidate_movies) = 10
    /\ Cardinality(Get(bandit_call).exploit_recs) = 6
    /\ BagCardinality(Get(bandit_call).result) = 7

\* C8: the explore step picks only candidates whose evidence is below the limit, each
\* at most once, exactly min(explore budget, number of such candidates) of them, and
\* with fewer such candidates than the budget (none included) the call still returns.
C8_ExploreLowEvidenceOnly ==
    IsSample =>
        LET c == Get(bandit_call)
        IN  /\ ~c.raised
            /\ BagToSet(c.explore_sample) \subseteq LowEvidenceCandidates
            /\ \A m \in BagToSet(c.explore_sample) : CopiesIn(m, c.explore_sample) = 1
            /\ BagCardinality(c.explore_sample) =
                  Min(c.call.n_explore, Cardinality(LowEvidenceCandidates))

\* a budget of two with a single low-evidence candidate among ten
C8_Witness ==
    /\ IsSample
    /\ ~Get(bandit_call).raised
    /\ Get(bandit_call).call.n_explore = 2
    /\ Len(Get(bandit_call).call.candidate_movies) = 10
    /\ Cardinality(LowEvidenceCandidates) = 1
    /\ BagCardinality(Get(bandit_call).explore_sample) = 1

\* C9: sample(candidates, n=10, explore_rate=0.2) on candidates that hold at least two
\* low-evidence items returns at least one low-evidence item, whatever the draws are.
C9_ExplorationFloor ==
    (/\ IsSample
     /\ Get(bandit_call).call.n_samples = 10
     /\ Get(bandit_call).call.explore_rate = 20
     /\ Cardinality(LowEvidenceCandidates) >= 2) =>
        /\ ~Get(bandit_call).raised
        /\ BagToSet(Get(bandit_call).result) \cap LowEvidenceCandidates # {}

\* the exploit step took eight well-known movies and none of the two little-known ones
C9_Witness ==
    /\ IsSample
    /\ ~Get(bandit_call).raised
    /\ Get(bandit_call).call.n_samples = 10
    /\ Get(bandit_call).call.explore_rate = 20
    /\ Cardinality(LowEvidenceCandidates) = 2
    /\ Cardinality(Get(bandit_call).exploit_recs) = 8
    /\ Get(bandit_call).exploit_recs \cap LowEvidenceCandidates = {}

\* C10: on every lookup path and for every catalog size, catalogs of at most 20 rows
\* included, the queried item is neither in the neighbour list nor in the results.
C10_NoSelfMatch ==
    similar_call # None =>
        LET c == Get(similar_call)
        IN  /\ ~BagIn(c.idx, c.neighbor_indices)
            /\ c.idx \notin c.results

\* --- the by-user request --------------------------------------------------
\* the last request got as far as the compatibility check and the scoring
ReachedScoring == request # None /\ Get(request).info.user_idx >= 0

\* a model whose factor row counts are not those of the current matrix
Incompatible(model, info) ==
    \/ Len(model.user_factors) # Len(info.user_ids)
    \/ Len(model.item_factors) # Len(info.movie_ids)

\* C2: in a by-user request, when any model of the loaded blob has a user-factor or
\* item-factor row count different from the current number of users or movies, the
\* whole ensemble is retrained on the current matrix before scoring, and the scoring
\* skips no model of the ensemble as incompatible.
C2_ShapeMismatchRetrains ==
    ReachedScoring =>
        LET r == Get(request)
        IN  /\ (\E name \in DOMAIN r.loaded : Incompatible(r.loaded[name], r.info))
                  => r.info.retrained
            /\ r.info.retrained =>
                  \A name \in DOMAIN ensemble_models :
                     ensemble_models[name] = [user_factors |-> r.info.user_ids,
                                              item_factors |-> r.info.movie_ids,
                                              fit_on |-> r.info.rating_matrix]
            /\ ~r.info.retrained => ensemble_models = r.loaded
            /\ r.info.skipped = {}
            /\ r.info.scored = DOMAIN ensemble_models

\* a request that found only the movie count of the loaded blob changed, retrained,
\* and scored with every model of the new ensemble
C2_Witness ==
    /\ ReachedScoring
    /\ LET r == Get(request)
       IN  /\ r.status = "200"
           /\ r.loaded # <<>>
           /\ \A name \in DOMAIN r.loaded :
                 /\ Len(r.loaded[name].user_factors) = Len(r.info.user_ids)
                 /\ Len(r.loaded[name].item_factors) # Len(r.info.movie_ids)
           /\ r.info.retrained
           /\ r.info.scored = Range(ModelNames)

\* C3: whenever a request scores user U with a model, the model's row at U's current
\* user index was learnt from U, and the model's item rows follow the request's
\* movie index assignment.
C3_NoStaleIndices ==
    ReachedScoring =>
        LET r == Get(request)
        IN  \A name \in r.info.scored :
               /\ ensemble_models[name].user_factors[r.info.user_idx + 1] = r.user_id
               /\ ensemble_models[name].item_factors = r.info.movie_ids

\* C5: every entry of every user's bandit has successes >= 1 and failures >= 1, the
\* two maps have the same keys, and from one state to the next no bandit and no entry
\* is removed and no counter decreases.
C5_BanditMonotonic ==
    /\ [](\A u \in DOMAIN thompson_bandits :
            LET b == thompson_bandits[u]
            IN  /\ DOMAIN b.alpha = DOMAIN b.beta_param
                /\ \A m \in DOMAIN b.alpha : b.alpha[m] >= 1 /\ b.beta_param[m] >= 1)
    /\ [][\A u \in DOMAIN thompson_bandits :
            /\ u \in DOMAIN thompson_bandits'
            /\ \A m \in DOMAIN thompson_bandits[u].alpha :
                  /\ m \in DOMAIN thompson_bandits'[u].alpha
                  /\ m \in DOMAIN thompson_bandits'[u].beta_param
                  /\ thompson_bandits'[u].alpha[m] >= thompson_bandits[u].alpha[m]
                  /\ thompson_bandits'[u].beta_param[m] >= thompson_bandits[u].beta_param[m]]_vars

\* a user's bandit has been through two requests: a live rating was applied twice, and
\* an entry that only the sampling created is still there
C5_Witness ==
    /\ requests >= 2
    /\ \E u \in DOMAIN thompson_bandits :
          LET b == thompson_bandits[u]
          IN  /\ \E m \in DOMAIN b.alpha : b.alpha[m] + b.beta_param[m] >= 4
              /\ \E m \in DOMAIN b.alpha : b.alpha[m] = 1 /\ b.beta_param[m] = 1

\* --- the neighbour lookup stages ------------------------------------------
StageRank(stage) == CASE stage = "semantic" -> 1 [] stage = "knn" -> 2 [] stage = "cosine" -> 3

Failed(t) == t.outcome \in {"raised", "empty"}

\* C11: the semantic structure is queried first when the caller asks for it and it is
\* there; the KNN structure is queried exactly when it is there and the semantic stage
\* was not run, raised or gave nothing; the full cosine scoring is run exactly when
\* the KNN stage was needed and was absent, raised or gave nothing. Every stage
\* before the last one tried has failed, and the call returns the last one's list.
C11_FallbackOrder ==
    similar_call # None =>
        LET c == Get(similar_call)
            t == c.trace
            Ran(stage) == \E i \in 1..Len(t) : t[i].stage = stage
            FailedAt(stage) == \E i \in 1..Len(t) : t[i].stage = stage /\ Failed(t[i])
            lexical == ~Ran("semantic") \/ FailedAt("semantic")
        IN  /\ Len(t) >= 1
            /\ \A i \in 1..(Len(t) - 1) :
                  Failed(t[i]) /\ StageRank(t[i].stage) < StageRank(t[i + 1].stage)
            /\ Ran("semantic") <=> (c.use_semantic /\ _sentence_model # None)
            /\ Ran("knn") <=> (lexical /\ _knn # None)
            /\ Ran("cosine") <=> (lexical /\ (~Ran("knn") \/ FailedAt("knn")))
            /\ c.stage = t[Len(t)].stage
            /\ (t[Len(t)].outcome = "found") <=> (c.neighbor_indices # EmptyBag)
            /\ t[Len(t)].outcome = "found" \/ t[Len(t)].stage = "cosine"

\* the semantic stage raised, the KNN stage raised, and the cosine scoring answered
C11_Witness ==
    /\ similar_call # None
    /\ Get(similar_call).trace = <<Tried("semantic", "raised"), Tried("knn", "raised"),
                                   Tried("cosine", "found")>>
    /\ Get(similar_call).top_n = 1
    /\ Get(similar_call).results # {}

\* --- the title lookup -------------------------------------------------------
ExactHits(norm) == {e \in Range(_title_index) : e.t = norm}

FuzzyHits(norm) == {e \in Range(_title_index) : CloseEnough(e.t, norm)}

SubstringHits(norm) == {e \in Range(_title_index) : Contains(e.t, norm)}

\* C12: the lookup returns the row of the exact match on the normalized title when
\* there is one and consults nothing further; otherwise the row of the closest title
\* above the cutoff when there is one, without consulting the containment stage;
\* otherwise the row of the first title that contains the name; and (None, None)
\* exactly when none of the three stages matches.
C12_LookupPriority ==
    lookup_call # None =>
        LET c == Get(lookup_call)
            exact == ExactHits(c.norm)
            fuzzy == FuzzyHits(c.norm)
            substring == SubstringHits(c.norm)
        IN  /\ exact # {} =>
                  /\ c.consulted = <<"exact">>
                  /\ \E e \in exact : c.idx = Some(e.idx)
            /\ (exact = {} /\ fuzzy # {}) =>
                  /\ c.consulted = <<"exact", "fuzzy">>
                  /\ \E e \in fuzzy :
                        /\ c.idx = Some(e.idx)
                        /\ \A o \in fuzzy : ~RatioLess(e.t, o.t, c.norm)
            /\ (exact = {} /\ fuzzy = {} /\ substring # {}) =>
                  /\ c.consulted = <<"exact", "fuzzy", "substring">>
                  /\ \E e \in substring : c.idx = Some(e.idx)
            /\ (c.idx = None) <=> (exact = {} /\ fuzzy = {} /\ substring = {})
            /\ c.idx = None => c.consulted = <<"exact", "fuzzy", "substring">>

\* the fuzzy stage answered, and the containment stage, had it been consulted, would
\* have answered with another row
C12_Witness ==
    /\ lookup_call # None
    /\ Get(lookup_call).consulted = <<"exact", "fuzzy">>
    /\ StageResult("substring", Get(lookup_call).norm) # None
    /\ StageResult("substring", Get(lookup_call).norm) # Get(lookup_call).idx

\* --- the error results of the by-user request ----------------------------------
\* the users with a row in the batch file
BatchUsers == {csv_ratings[i].user_id : i \in 1..Len(csv_ratings)}

\* the last request's payload had no user identifier, or an empty one
NoIdentifier == request # None /\ Get(request).payload_user \in {None, Some("")}

\* C13: a request without a user identifier, once the cached blob is loaded, ends
\* with status 400, and no bandit, matrix or model was built for it.
C13_MissingIdRejected ==
    (NoIdentifier /\ Get(request).status # "raised") =>
        /\ Get(request).status = "400"
        /\ Get(request).user_id \notin DOMAIN thompson_bandits
        /\ Get(request).info.user_idx = -1

\* the last request's user has no rating in the batch file and none in the live store
ColdStart ==
    /\ request # None
    /\ ~NoIdentifier
    /\ Get(request).user_id \notin BatchUsers
    /\ UserDocs(Get(request).user_id) = <<>>

\* C14: a request for a user with no interaction at all returns the 400 result
\* 'No ratings found for user': it never raises and never reaches the matrix, the
\* training or the scoring.
C14_ColdStartResult ==
    ColdStart =>
        /\ Get(request).status = "400"
        /\ Get(request).info.user_idx = -1
        /\ ~Get(request).info.retrained

\* C15: no by-user request ends by raising: each returns a result and a status.
C15_NoRawException ==
    request # None => Get(request).status \in {"200", "400", "500"}

\* C16: with the live store disabled or failing, a request for a user of the batch
\* file whose blob could be loaded is served from the batch data: it does not end in
\* an error result.
C16_BatchOnlyWhenLiveDown ==
    (/\ request # None
     /\ Get(request).user_id \in BatchUsers
     /\ Get(request).status # "raised")
        => /\ Get(request).status # "500"
           /\ ~FIREBASE_ENABLED => Get(request).status = "200"

\* C20: when the fused ranking of the ensemble is empty, the candidates are the
\* catalog movies the user has not rated, the bandit sampling runs on them, and the
\* request returns status 200 (with no result when there is no candidate).
C20_FallbackServed ==
    (ReachedScoring /\ Get(request).info.fused = {}) =>
        LET r == Get(request)
            rated == {UserDocs(r.user_id)[i].movie_id : i \in 1..Len(UserDocs(r.user_id))}
        IN  /\ r.status = "200"
            /\ r.info.candidates = CatalogMovies \ rated
            /\ BagToSet(r.info.sampled) \subseteq r.info.candidates

\* --- requests running at once ----------------------------------------------
\* the requests that are at position pc
At(pc) == {t \in DOMAIN threads : threads[t].pc = pc}

\* C17: at no time are two requests both inside load_and_merge_ratings, nor both
\* inside train_ensemble_als_models.
C17_OneRebuildAtATime ==
    /\ Cardinality(At("merging")) <= 1
    /\ Cardinality(At("training")) <= 1

\* the number of update calls the requests 1..t have made for user u and movie m
RECURSIVE UpdatesApplied(_, _, _)
UpdatesApplied(u, m, t) ==
    IF t = 0 THEN 0
    ELSE UpdatesApplied(u, m, t - 1)
         + (IF threads[t].user_id = u
            THEN Len(SelectSeq(threads[t].applied, LAMBDA x : x = m)) ELSE 0)

\* C18: the feedback count successes + failures - 2 of every (user, movie) entry is
\* the number of update calls the requests have made for it: no update is lost, and
\* no bandit that has received updates is replaced.
C18_NoLostUpdate ==
    \A u \in DOMAIN thompson_bandits, m \in CatalogMovies :
       Evidence(thompson_bandits[u], m) - 2 = UpdatesApplied(u, m, Len(threads))

\* C19: the models a request scores with are the models it has checked or trained:
\* ensemble_models is not replaced under it between the check and the scoring.
C19_ModelsNotReplacedUnderRequest ==
    \A t \in DOMAIN threads :
       threads[t].scored_with # None => threads[t].scored_with = threads[t].checked

\* the movies the user of the request has rated: the documents streamed for the
\* request and the user's rows of the merged table
RatedBy(user_id) ==
    {UserDocs(user_id)[i].movie_id : i \in 1..Len(UserDocs(user_id))}
    \cup {row.movie_id : row \in {r \in Range(MergedTable(FALSE)) : r.user_id = user_id}}

\* C21: a by-user request that is served hands to the bandit's sampling a
\* candidate list holding the fused items and every movie the user has rated
C21_HistoryAmongCandidates ==
    [][(requests' = requests + 1 /\ Get(request').status = "200")
        => (Get(request').info.fused \cup RatedBy(Get(request').user_id))
              \subseteq Get(request').info.candidates]_vars

\* C22: every item a sample call returns is flagged is_exploration by the by-user
\* request exactly when it is eligible for the explore pool of that call, i.e. when
\* it is among the low-confidence candidates.
C22_ExplorationFlagIsPoolEligibility ==
    (IsSample /\ ~Get(bandit_call).raised) =>
        \A m \in BagToSet(Get(bandit_call).result) :
            is_exploration(bandit, m)
              <=> m \in Range(low_confidence_movies(bandit,
                                                    Get(bandit_call).call.candidate_movies))

\* the cells of the matrix that the documents of the requesting user fill
FeedbackCells(info, user_id) ==
    {<<info.user_idx, IndexOf(info.movie_ids, UserDocs(user_id)[i].movie_id)>> :
        i \in 1..Len(UserDocs(user_id))}

\* C24: a by-user request served from the fused ranking builds its matrix from data
\* holding every rating the user has recorded in the live store, and the models that
\* give the scores are fitted on that matrix, whenever the merged table was loaded.
C24_ReadYourWrites ==
    [][(/\ requests' = requests + 1
        /\ Get(request').status = "200"
        /\ Get(request').info.fused # {})
        => LET r == Get(request')
           IN  /\ FeedbackCells(r.info, r.user_id) \subseteq DOMAIN r.info.rating_matrix
               /\ \A name \in r.info.scored :
                     ensemble_models'[name].fit_on = r.info.rating_matrix]_vars

\* the positions of the documents of user_id that are the user's only document for
\* their movie
SingleDocs(user_id) ==
    {i \in 1..Len(UserDocs(user_id)) :
        \A j \in 1..Len(UserDocs(user_id)) :
           UserDocs(user_id)[j].movie_id = UserDocs(user_id)[i].movie_id => j = i}

\* C28: in the matrix a by-user request builds, the cell of the requesting user and
\* of a movie the user has rated once in the live store holds that live rating,
\* also when the merged table has a row for the same user and movie.
C28_OneCellLiveValue ==
    [][(requests' = requests + 1 /\ Get(request').info.user_idx >= 0)
        => LET r == Get(request')
           IN  \A i \in SingleDocs(r.user_id) :
                  r.info.rating_matrix[<<r.info.user_idx,
                                         IndexOf(r.info.movie_ids,
                                                 UserDocs(r.user_id)[i].movie_id)>>]
                     = UserDocs(r.user_id)[i].rating]_vars

\* the ratings observed for a user and a movie: the user's live records of the movie,
\* and the merged rows of the pair that no live record repeats
Observed(user_id, movie_id) ==
    LET docs == {i \in 1..Len(UserDocs(user_id)) : UserDocs(user_id)[i].movie_id = movie_id}
        merged == IF user_movie_ratings = None THEN <<>> ELSE Get(user_movie_ratings)
        rows == {i \in 1..Len(merged) :
                    /\ merged[i].user_id = user_id
                    /\ merged[i].movie_id = movie_id
                    /\ \A j \in docs : UserDocs(user_id)[j].rating # merged[i].rating}
    IN  Cardinality(docs) + Cardinality(rows)

\* C29: a user's bandit counts each observed rating once: for every movie the
\* feedback it has recorded is at most the number of ratings observed for the user
\* and the movie, however many requests the user has made.
C29_EachRatingCountedOnce ==
    \A u \in DOMAIN thompson_bandits :
       \A m \in DOMAIN thompson_bandits[u].alpha :
          total_feedback(thompson_bandits[u], m) <= Observed(u, m)

\* C26: in a catalog of three rows A, B, C (rows 0, 1, 2) where B is more similar to
\* A than C is, the by-item request for A with top_n = 1 never returns C.
C26_LeastSimilarNotReturned ==
    (/\ similar_call # None
     /\ _df = 3
     /\ Sim(0, 1) > Sim(0, 2)
     /\ Get(similar_call).idx = 0
     /\ Get(similar_call).top_n = 1)
        => 2 \notin Get(similar_call).results

\* C30: every result of a by-item request is labelled "Semantic similarity" when the
\* neighbour list it was taken from is the one the semantic index gave, and "Content
\* similarity" when the list came from the KNN or the full cosine stage.
C30_MethodNamesTheSource ==
    (similar_call # None /\ Get(similar_call).results # {}) =>
        /\ Get(similar_call).method \in {"Semantic similarity", "Content similarity"}
        /\ Get(similar_call).method = "Semantic similarity"
              <=> Get(similar_call).stage = "semantic"

\* the caller asked for the semantic lookup, the sentence model is there but its
\* lookup raised, and the results, taken from the KNN neighbours, are labelled
\* "Content similarity"
C30_Witness ==
    /\ similar_call # None
    /\ Get(similar_call).use_semantic
    /\ _sentence_model # None
    /\ Get(similar_call).trace[1] = Tried("semantic", "raised")
    /\ Get(similar_call).stage = "knn"
    /\ Get(similar_call).results # {}
    /\ Get(similar_call).method = "Content similarity"

\* --- the fusion --------------------------------------------------------------
\* the models of a call that returned recommendations
Surviving(call) == {name \in Range(ModelNames) : call.scoring[name].kind = "scored"}

\* the raw score model `name` gave to movie_idx in a call, 0 when it gave none
RawScore(call, name, movie_idx) ==
    LET recs == call.scoring[name].recs
        at == {i \in 1..Len(recs) : recs[i][1] = movie_idx}
    IN  IF name \in Surviving(call) /\ at # {} THEN recs[CHOOSE i \in at : TRUE][2] ELSE 0

\* the movies some surviving model recommended in a call
Recommendable(call) ==
    UNION {{call.scoring[name].recs[i][1] : i \in 1..Len(call.scoring[name].recs)} :
              name \in Surviving(call)}

WeightedSum(call, movie_idx) ==
    5 * RawScore(call, "als", movie_idx) + 3 * RawScore(call, "bpr", movie_idx)
       + 2 * RawScore(call, "lmf", movie_idx)

\* C23: the fused score of an item is the sum, over the models that returned
\* recommendations, of the model's weight (0.5, 0.3, 0.2 for als, bpr, lmf) times the
\* raw score it gave the item; a model that is untrained, skipped or raising adds
\* nothing and the others still count; the output lists distinct items by fused score
\* descending, has min(N, number of recommended items) entries and leaves out no
\* item that scores higher than one it holds.
C23_WeightedSumRanked ==
    fusion_call # None =>
        LET call == Get(fusion_call)
            out == call.result
            items == {out[i][1] : i \in 1..Len(out)}
        IN  /\ \A i \in 1..Len(out) :
                  /\ out[i][1] \in Recommendable(call)
                  /\ out[i][2] = WeightedSum(call, out[i][1])
            /\ \A i, j \in 1..Len(out) : i < j => (out[i][2] >= out[j][2] /\ out[i][1] # out[j][1])
            /\ Len(out) = Min(call.N, Cardinality(Recommendable(call)))
            /\ \A m \in Recommendable(call) \ items :
                  \A i \in 1..Len(out) : WeightedSum(call, m) <= out[i][2]

\* a call in which one model raised, the two others both scored the same item, and
\* the list was cut at N
C23_Witness ==
    /\ fusion_call # None
    /\ LET call == Get(fusion_call)
       IN  /\ call.scoring["als"].kind = "raised"
           /\ Surviving(call) = {"bpr", "lmf"}
           /\ \E m \in FusionItems :
                 /\ RawScore(call, "bpr", m) > 0
                 /\ RawScore(call, "lmf", m) > 0
                 /\ call.result[1] = <<m, 3 * RawScore(call, "bpr", m)
                                          + 2 * RawScore(call, "lmf", m)>>
           /\ Cardinality(Recommendable(call)) > call.N
           /\ Len(call.result) = call.N

\* C25: build_model(force=True) bypasses every cache artifact: the catalog it leaves
\* is the one of the file, and the semantic embeddings it leaves are those of that
\* catalog, row for row.
C25_ForceRebuildsEverything ==
    (build_call # None /\ Get(build_call).force) =>
        LET b == Get(build_call)
        IN  /\ b.df = b.catalog
            /\ Len(b.embeddings) = Len(b.df)
            /\ \A i \in 1..Len(b.df) : b.embeddings[i] = Encode(b.df[i])

\* --- the metadata lookups ----------------------------------------------------
\* the lookups an entry could make all ended in an error
LookupsFailed(call) ==
    /\ call.by_id.kind = "error"
    /\ call.by_search.kind \in {"error", "empty_results"}

\* C27: building a result entry never raises because of the metadata lookups, in the
\* by-item and in the by-user flow; when no lookup gave an object the entry has a
\* null poster and a null rating, and when every lookup request fails no object is
\* obtained from the service.
C27_LookupFailuresDegrade ==
    [][\A c \in {Get(tmdb_call')} :
          /\ ~c.raised
          /\ ~c.found => (c.poster = None /\ c.rating = None)
          /\ (LookupsFailed(c) /\ _TMDB_CACHE = <<>>) => ~c.found]_vars

\* with the key set, a row with an id and a title, the lookup by id and the lookup
\* by title both fail in the by-user flow, and the entry is built with a null poster
\* and a null rating
C27_Witness ==
    /\ tmdb_call # None
    /\ TMDB_API_KEY
    /\ LET c == Get(tmdb_call)
       IN  /\ c.flow = "by_user"
           /\ c.tmdb_id # None
           /\ c.title # <<>>
           /\ LookupsFailed(c)
           /\ _TMDB_CACHE = <<>>
           /\ ~c.raised
           /\ c.poster = None
           /\ c.rating = None

====
